---- MODULE Spec2Model ----
(***************************************************************************)
(* A model of the baseball rules engine: Count / PlateAppearance,          *)
(* BaserunnerState / PlayOutcome, HalfInning and Game, each translated      *)
(* from its Rust source.  Option<T> values are modelled as sets: None is   *)
(* {} and Some(x) is {x}.  BattingPosition First..Ninth is 1..9 (its       *)
(* as_number), Outs Zero..Three is 0..3, Balls 0..3 and Strikes 0..2.      *)
(***************************************************************************)
EXTENDS Integers, FiniteSets, Sequences, TLC

VARIABLES result, call, ret

vars == <<result, call, ret>>

(***************************************************************************)
(* Bounds of the model.                                                    *)
(***************************************************************************)
\* Runs are capped: no pitch is taken that brings away + home + the live
\* half's runs above MaxRuns.
MaxRuns == 1
\* The last inning a game may open (Extra(MaxInning)).
MaxInning == 11
\* The longest pitch sequence thrown at one plate appearance.
MaxPitches == 8
\* No pitch is taken that brings a half-inning driven alone above this many runs.
MaxHalfRuns == 4
\* The longest distance asked of Base::advance_by.
MaxBases == 8
\* The most pitches thrown in the plugin.
MaxThrown == 2
\* The longest the batter holds the swing key, in ticks of 0.05 s.
MaxCharge == 14
\* The most swings the batter takes at one pitch.
MaxSwings == 1

(***************************************************************************)
(* Option<T>                                                               *)
(***************************************************************************)
None == {}
Some(x) == {x}
is_some(o) == o # {}
unwrap(o) == CHOOSE x \in o : TRUE

(***************************************************************************)
(* lineup.rs                                                               *)
(***************************************************************************)
BattingPosition == 1..9

\* Mutant: the order stops at the ninth slot.
BattingPosition_next_no_wrap(b) == IF b = 9 THEN 9 ELSE b + 1

BattingPosition_next(b) == IF b = 9 THEN 1 ELSE b + 1

(***************************************************************************)
(* baserunners.rs                                                          *)
(***************************************************************************)
Base == {"First", "Second", "Third", "Home"}

\* Mutant: Home leads back to First.
Base_next_wraps(self) ==
    CASE self = "First" -> "Second"
      [] self = "Second" -> "Third"
      [] self = "Third" -> "Home"
      [] self = "Home" -> "First"

Base_next(self) ==
    CASE self = "First" -> "Second"
      [] self = "Second" -> "Third"
      [] self = "Third" -> "Home"
      [] self = "Home" -> "Home"

\* The loop of Base::advance_by with `left` iterations to go: it breaks at Home.
RECURSIVE advance_by_loop(_, _)
advance_by_loop(current, left) ==
    IF left = 0
    THEN current
    ELSE IF current = "Home"
         THEN current
         ELSE advance_by_loop(Base_next(current), left - 1)

advance_by(self, bases) == advance_by_loop(self, bases)

ForceOut == [k |-> "ForceOut"]
TagOut == [k |-> "TagOut"]
Runner(b) == [k |-> "Runner", p |-> b]
NoOutcome == [k |-> "None"]

BaseOutcome_outs(o) == IF o.k \in {"ForceOut", "TagOut"} THEN 1 ELSE 0

as_basrunner(o) == IF o.k = "Runner" THEN Some(o.p) ELSE None

\* Option<BattingPosition>.map(BaseOutcome::Runner).unwrap_or(BaseOutcome::None)
runner_or_none(o) == IF is_some(o) THEN Runner(unwrap(o)) ELSE NoOutcome

HomeOutcome == {"One", "Two", "Three", "Four", "None", "Out"}

HomeOutcome_outs(h) == IF h = "Out" THEN 1 ELSE 0

HomeOutcome_runs_scored(h) ==
    CASE h = "One" -> 1
      [] h = "Two" -> 2
      [] h = "Three" -> 3
      [] h = "Four" -> 4
      [] h = "None" -> 0
      [] h = "Out" -> 0

PlayOutcome_new(first, second, third, home) ==
    [first |-> first, second |-> second, third |-> third, home |-> home]

groundout == PlayOutcome_new(ForceOut, NoOutcome, NoOutcome, "None")

\* The 16-arm match of PlayOutcome::scored, arm by arm.
scored(first, second, third, batter) ==
    LET f == is_some(first)
        s == is_some(second)
        t == is_some(third)
        b == is_some(batter)
    IN  CASE ~f /\ ~s /\ ~t /\ ~b -> "None"
          [] ~f /\ ~s /\ ~t /\  b -> "One"
          [] ~f /\ ~s /\  t /\ ~b -> "Two"
          [] ~f /\ ~s /\  t /\  b -> "Three"
          [] ~f /\  s /\ ~t /\ ~b -> "One"
          [] ~f /\  s /\ ~t /\  b -> "Two"
          [] ~f /\  s /\  t /\ ~b -> "Two"
          [] ~f /\  s /\  t /\  b -> "Three"
          []  f /\ ~s /\ ~t /\ ~b -> "One"
          []  f /\ ~s /\ ~t /\  b -> "Two"
          []  f /\ ~s /\  t /\ ~b -> "Two"
          []  f /\ ~s /\  t /\  b -> "Three"
          []  f /\  s /\ ~t /\ ~b -> "Two"
          []  f /\  s /\ ~t /\  b -> "Three"
          []  f /\  s /\  t /\ ~b -> "Three"
          []  f /\  s /\  t /\  b -> "Four"

\* Mutant: on a single the runner from first is written to second and to third.
single_runner_copied(baserunners, batter) ==
    PlayOutcome_new(Runner(batter),
                    runner_or_none(baserunners.first),
                    runner_or_none(baserunners.first),
                    scored(None, None, baserunners.third, None))

single(baserunners, batter) ==
    PlayOutcome_new(Runner(batter),
                    runner_or_none(baserunners.first),
                    runner_or_none(baserunners.second),
                    scored(None, None, baserunners.third, None))

\* Mutant: on a double the runner from first stops at second with the batter.
double_runner_holds(baserunners, batter) ==
    [first |-> NoOutcome,
     second |-> runner_or_none(baserunners.first),
     third |-> NoOutcome,
     home |-> scored(None, baserunners.second, baserunners.third, None)]

double(baserunners, batter) ==
    PlayOutcome_new(NoOutcome,
                    Runner(batter),
                    runner_or_none(baserunners.first),
                    scored(None, baserunners.second, baserunners.third, None))

triple(baserunners, batter) ==
    PlayOutcome_new(NoOutcome,
                    NoOutcome,
                    Runner(batter),
                    scored(baserunners.first, baserunners.second,
                           baserunners.third, None))

\* Mutant: the batter of a home run is not counted among the runs.
homerun_without_batter(baserunners, batter) ==
    [first |-> NoOutcome,
     second |-> NoOutcome,
     third |-> NoOutcome,
     home |-> scored(baserunners.first, baserunners.second, baserunners.third, None)]

homerun(baserunners, batter) ==
    PlayOutcome_new(NoOutcome,
                    NoOutcome,
                    NoOutcome,
                    scored(baserunners.first, baserunners.second,
                           baserunners.third, Some(batter)))

with_first(self, first) == [self EXCEPT !.first = first]
with_second(self, second) == [self EXCEPT !.second = second]
with_third(self, third) == [self EXCEPT !.third = third]
with_home(self, home) == [self EXCEPT !.home = home]

\* Mutant: an out at the plate is not counted.
PlayOutcome_outs_bases_only(o) ==
    BaseOutcome_outs(o.first) + BaseOutcome_outs(o.second) + BaseOutcome_outs(o.third)

PlayOutcome_outs(o) ==
    BaseOutcome_outs(o.first) + BaseOutcome_outs(o.second)
        + BaseOutcome_outs(o.third) + HomeOutcome_outs(o.home)

PlayOutcome_baserunners(o) ==
    [first |-> as_basrunner(o.first),
     second |-> as_basrunner(o.second),
     third |-> as_basrunner(o.third)]

PlayOutcome_runs_scored(o) == HomeOutcome_runs_scored(o.home)

BaserunnerState_new == [first |-> None, second |-> None, third |-> None]

BaserunnerState_empty == BaserunnerState_new

set_first(s, runner) == [s EXCEPT !.first = runner]
set_second(s, runner) == [s EXCEPT !.second = runner]
set_third(s, runner) == [s EXCEPT !.third = runner]

\* BaserunnerState::walk: the pair (new_state, runs_scored).
\* Mutant: a walk never brings a run home.
walk_never_scores(self, batter) ==
    LET s0 == set_first(BaserunnerState_new, Some(batter))
        s1 == IF is_some(self.first) THEN set_second(s0, self.first) ELSE s0
        s2 == IF is_some(self.second) THEN set_third(s1, self.second) ELSE s1
    IN  [state |-> s2, runs |-> 0]

\* Mutant: the runner from second is not carried to third.
walk_drops_second(self, batter) ==
    LET s0 == set_first(BaserunnerState_new, Some(batter))
        s1 == IF is_some(self.first) THEN set_second(s0, self.first) ELSE s0
        runs_scored == IF is_some(self.third) THEN 1 ELSE 0
    IN  [state |-> s1, runs |-> runs_scored]

walk(self, batter) ==
    LET s0 == set_first(BaserunnerState_new, Some(batter))
        s1 == IF is_some(self.first) THEN set_second(s0, self.first) ELSE s0
        s2 == IF is_some(self.second) THEN set_third(s1, self.second) ELSE s1
        runs_scored == IF is_some(self.third) THEN 1 ELSE 0
    IN  [state |-> s2, runs |-> runs_scored]

\* Mutant: only the batter scores on a home run.
home_run_solo(self) == 1

home_run(self) ==
    1 + (IF is_some(self.first) THEN 1 ELSE 0)
      + (IF is_some(self.second) THEN 1 ELSE 0)
      + (IF is_some(self.third) THEN 1 ELSE 0)

(***************************************************************************)
(* pa.rs                                                                   *)
(***************************************************************************)
Ball == [k |-> "Ball"]
Strike == [k |-> "Strike"]
Foul == [k |-> "Foul"]
InPlay(o) == [k |-> "InPlay", outcome |-> o]
HomeRun == [k |-> "HomeRun"]
HitByPitch == [k |-> "HitByPitch"]

Count_new(balls, strikes) == [balls |-> balls, strikes |-> strikes]

Count_default == Count_new(0, 0)

CountAdvance_in_progress(count) == [tag |-> "InProgress", count |-> count]

\* Mutant: the walk is given on ball three.
advance_ball_walks_early(self) ==
    IF self.balls >= 2
    THEN [tag |-> "Walk"]
    ELSE CountAdvance_in_progress(Count_new(self.balls + 1, self.strikes))

advance_ball(self) ==
    IF self.balls = 3
    THEN [tag |-> "Walk"]
    ELSE CountAdvance_in_progress(Count_new(self.balls + 1, self.strikes))

advance_strike(self) ==
    IF self.strikes = 2
    THEN [tag |-> "Strikeout"]
    ELSE CountAdvance_in_progress(Count_new(self.balls, self.strikes + 1))

\* Mutant: a foul with two strikes is strike three.
advance_foul_strikes_out(self) ==
    IF self.strikes = 2
    THEN [tag |-> "Strikeout"]
    ELSE CountAdvance_in_progress(Count_new(self.balls, self.strikes + 1))

advance_foul(self) ==
    IF self.strikes = 2
    THEN CountAdvance_in_progress(self)
    ELSE CountAdvance_in_progress(Count_new(self.balls, self.strikes + 1))

Count_advance(self, outcome) ==
    CASE outcome.k = "Ball" -> advance_ball(self)
      [] outcome.k = "Strike" -> advance_strike(self)
      [] outcome.k = "Foul" -> advance_foul(self)
      [] OTHER -> CountAdvance_in_progress(self)

PlateAppearance_with_count(count) == [count |-> count]

PlateAppearance_new == PlateAppearance_with_count(Count_default)

PlateAppearance_advance(self, outcome) ==
    CASE outcome.k \in {"Ball", "Strike", "Foul"} ->
            LET count_advance == Count_advance(self.count, outcome)
            IN  (CASE count_advance.tag = "InProgress" ->
                         [tag |-> "InProgress",
                          pa |-> PlateAppearance_with_count(count_advance.count)]
                   [] count_advance.tag = "Strikeout" -> [tag |-> "Strikeout"]
                   [] count_advance.tag = "Walk" -> [tag |-> "Walk"])
      [] outcome.k = "InPlay" -> [tag |-> "InPlay", outcome |-> outcome.outcome]
      [] outcome.k = "HomeRun" -> [tag |-> "HomeRun"]
      [] outcome.k = "HitByPitch" -> [tag |-> "HitByPitch"]

\* Mutant: a pitch after the plate appearance has ended starts a fresh one.
PlateAppearanceResult_advance_restart(self, outcome) ==
    PlateAppearance_advance(
        IF self.tag = "InProgress" THEN self.pa ELSE PlateAppearance_new, outcome)

PlateAppearanceResult_advance(self, outcome) ==
    IF self.tag = "InProgress"
    THEN PlateAppearance_advance(self.pa, outcome)
    ELSE self

(***************************************************************************)
(* inning.rs                                                               *)
(***************************************************************************)
\* Mutant: every out is counted twice.
add_out_twice(outs) == IF outs >= 2 THEN 3 ELSE outs + 2

add_out(outs) == IF outs = 3 THEN 3 ELSE outs + 1

HalfInning_new(half, starting_batter) ==
    [half |-> half,
     outs |-> 0,
     current_batter |-> starting_batter,
     current_pa |-> PlateAppearance_new,
     runs_scored |-> 0,
     baserunners |-> BaserunnerState_new]

HalfInningSummary_new(runs_scored) == [runs_scored |-> runs_scored]

HalfInningAdvance_in_progress(hi) == [tag |-> "InProgress", hi |-> hi]

HalfInningAdvance_complete(summary) == [tag |-> "Complete", summary |-> summary]

set_outs(self, outs) == [self EXCEPT !.outs = outs]

advance_batter(self) ==
    HalfInningAdvance_in_progress(
        [self EXCEPT !.current_batter = BattingPosition_next(self.current_batter),
                     !.current_pa = PlateAppearance_new])

\* Mutant: the runs of a play are not added to the half.
add_runs_dropped(self, runs_scored) == self

add_runs(self, runs_scored) ==
    [self EXCEPT !.runs_scored = self.runs_scored + runs_scored]

\* Mutant: runners already on base stay where the play does not name one.
with_baserunners_kept(self, baserunners) ==
    [self EXCEPT !.baserunners =
        [b \in {"first", "second", "third"} |->
            IF is_some(baserunners[b]) THEN baserunners[b] ELSE self.baserunners[b]]]

with_baserunners(self, baserunners) == [self EXCEPT !.baserunners = baserunners]

\* The loop of increment_outs, with `outs` the local counter and n the
\* iterations left.
RECURSIVE increment_outs_from(_, _, _)
increment_outs_from(self, outs, n) ==
    IF n = 0
    THEN advance_batter(set_outs(self, outs))
    ELSE LET o == add_out(outs)
         IN  IF o = 3
             THEN HalfInningAdvance_complete(HalfInningSummary_new(self.runs_scored))
             ELSE increment_outs_from(self, o, n - 1)

\* Mutant: a play counts for one out at most, however many it records.
increment_outs_one_at_most(self, n) ==
    increment_outs_from(self, self.outs, IF n > 0 THEN 1 ELSE 0)

increment_outs(self, n) == increment_outs_from(self, self.outs, n)

\* Mutant: a hit batter forces the runners along but the forced run is lost.
HalfInning_advance_hit_batter_no_run(self, outcome) ==
    LET pa == PlateAppearance_advance(self.current_pa, outcome)
    IN  CASE pa.tag = "Strikeout" -> increment_outs(self, 1)
          [] pa.tag = "InPlay" ->
                LET outs == PlayOutcome_outs(pa.outcome)
                    baserunners == PlayOutcome_baserunners(pa.outcome)
                    runs_scored == PlayOutcome_runs_scored(pa.outcome)
                IN  increment_outs(
                        with_baserunners(add_runs(self, runs_scored), baserunners),
                        outs)
          [] pa.tag = "Walk" ->
                LET w == walk(self.baserunners, self.current_batter)
                IN  advance_batter(with_baserunners(add_runs(self, w.runs), w.state))
          [] pa.tag = "HitByPitch" ->
                LET w == walk(self.baserunners, self.current_batter)
                IN  advance_batter(with_baserunners(self, w.state))
          [] pa.tag = "HomeRun" ->
                LET runs == home_run(self.baserunners)
                IN  advance_batter(
                        with_baserunners(add_runs(self, runs), BaserunnerState_empty))
          [] pa.tag = "InProgress" ->
                HalfInningAdvance_in_progress([self EXCEPT !.current_pa = pa.pa])

\* Mutant: a pitch that leaves the plate appearance going moves the order on.
HalfInning_advance_count_moves_order(self, outcome) ==
    LET pa == PlateAppearance_advance(self.current_pa, outcome)
    IN  CASE pa.tag = "Strikeout" -> increment_outs(self, 1)
          [] pa.tag = "InPlay" ->
                LET outs == PlayOutcome_outs(pa.outcome)
                    baserunners == PlayOutcome_baserunners(pa.outcome)
                    runs_scored == PlayOutcome_runs_scored(pa.outcome)
                IN  increment_outs(
                        with_baserunners(add_runs(self, runs_scored), baserunners),
                        outs)
          [] pa.tag = "Walk" ->
                LET w == walk(self.baserunners, self.current_batter)
                IN  advance_batter(with_baserunners(add_runs(self, w.runs), w.state))
          [] pa.tag = "HitByPitch" ->
                LET w == walk(self.baserunners, self.current_batter)
                IN  advance_batter(with_baserunners(add_runs(self, w.runs), w.state))
          [] pa.tag = "HomeRun" ->
                LET runs == home_run(self.baserunners)
                IN  advance_batter(
                        with_baserunners(add_runs(self, runs), BaserunnerState_empty))
          [] pa.tag = "InProgress" ->
                HalfInningAdvance_in_progress(
                    [self EXCEPT !.current_pa = pa.pa,
                                 !.current_batter = BattingPosition_next(self.current_batter)])

HalfInning_advance(self, outcome) ==
    LET pa == PlateAppearance_advance(self.current_pa, outcome)
    IN  CASE pa.tag = "Strikeout" -> increment_outs(self, 1)
          [] pa.tag = "InPlay" ->
                LET outs == PlayOutcome_outs(pa.outcome)
                    baserunners == PlayOutcome_baserunners(pa.outcome)
                    runs_scored == PlayOutcome_runs_scored(pa.outcome)
                IN  increment_outs(
                        with_baserunners(add_runs(self, runs_scored), baserunners),
                        outs)
          [] pa.tag = "Walk" ->
                LET w == walk(self.baserunners, self.current_batter)
                IN  advance_batter(with_baserunners(add_runs(self, w.runs), w.state))
          [] pa.tag = "HitByPitch" ->
                LET w == walk(self.baserunners, self.current_batter)
                IN  advance_batter(with_baserunners(add_runs(self, w.runs), w.state))
          [] pa.tag = "HomeRun" ->
                LET runs == home_run(self.baserunners)
                IN  advance_batter(
                        with_baserunners(add_runs(self, runs), BaserunnerState_empty))
          [] pa.tag = "InProgress" ->
                HalfInningAdvance_in_progress([self EXCEPT !.current_pa = pa.pa])

HalfInningAdvance_advance(self, pitch) ==
    IF self.tag = "InProgress"
    THEN HalfInning_advance(self.hi, pitch)
    ELSE self

(***************************************************************************)
(* game.rs                                                                 *)
(***************************************************************************)
\* InningNumber: First..Ninth are Regular(1)..Regular(9), Extra(n) is Extra(n).
Regular(n) == [k |-> "Regular", n |-> n]
Extra(n) == [k |-> "Extra", n |-> n]
Ninth == Regular(9)

\* Extra carries a u8.
U8_MAX == 255

\* a + b on u8 operands: whether it overflows, and the value a build without
\* overflow checks (the release profile) computes.
u8_add_overflows(a, b) == a + b > U8_MAX

u8_wrapping_add(a, b) == (a + b) % (U8_MAX + 1)

\* The value of InningNumber::next where n + 1 does not panic; a game stays
\* below the overflow as long as its inning is at most MaxInning.
InningNumber_next(self) ==
    CASE self.k = "Regular" /\ self.n < 9 -> Regular(self.n + 1)
      [] self.k = "Regular" /\ self.n = 9 -> Extra(10)
      [] self.k = "Extra" -> Extra(u8_wrapping_add(self.n, 1))

as_number(self) == self.n

GameScore_new == [away |-> 0, home |-> 0]

add_away_runs(self, runs) == [self EXCEPT !.away = self.away + runs]

add_home_runs(self, runs) == [self EXCEPT !.home = self.home + runs]

GameScore_winner(self) ==
    IF self.away > self.home
    THEN Some("Away")
    ELSE IF self.home > self.away
         THEN Some("Home")
         ELSE None

GameSummary_new(final_score, innings_played, winner) ==
    [final_score |-> final_score,
     innings_played |-> innings_played,
     winner |-> winner]

Inning(half) == [k |-> "Inning", half |-> half]
InningEnd(half) == [k |-> "InningEnd", half |-> half]
StateComplete == [k |-> "Complete"]

is_bottom(state) == state = Inning("Bottom")

Game_with_batting_orders(away_order, home_order) ==
    [current_inning |-> Regular(1),
     state |-> Inning("Top"),
     score |-> GameScore_new,
     current_half_inning |-> HalfInning_new("Top", away_order),
     away_batting_order |-> away_order,
     home_batting_order |-> home_order]

Game_new == Game_with_batting_orders(1, 1)

GameResult_in_progress(game) == [tag |-> "InProgress", game |-> game]

GameResult_complete(summary) == [tag |-> "Complete", summary |-> summary]

\* A failed expect(): the program panics and yields no GameResult.
Panicked(msg) == [tag |-> "Panicked", msg |-> msg]

\* Mutant: the half's runs are credited to the team in the field.
complete_half_inning_swapped(self, pending_runs) ==
    CASE self.state = Inning("Top") ->
            [self EXCEPT !.score = add_home_runs(self.score, pending_runs),
                         !.state = InningEnd("Top")]
      [] self.state = Inning("Bottom") ->
            [self EXCEPT !.score = add_away_runs(self.score, pending_runs),
                         !.state = InningEnd("Bottom")]
      [] OTHER -> self

complete_half_inning(self, pending_runs) ==
    CASE self.state = Inning("Top") ->
            [self EXCEPT !.score = add_away_runs(self.score, pending_runs),
                         !.state = InningEnd("Top")]
      [] self.state = Inning("Bottom") ->
            [self EXCEPT !.score = add_home_runs(self.score, pending_runs),
                         !.state = InningEnd("Bottom")]
      [] OTHER -> self

\* Mutant: the top of the ninth never ends the game.
should_end_ninth_always_bottom(self, pending_runs) ==
    CASE self.state = InningEnd("Top") -> FALSE
      [] self.state = InningEnd("Bottom") -> self.score.home # self.score.away
      [] self.state = Inning("Top") -> FALSE
      [] self.state = Inning("Bottom") ->
            self.score.home + pending_runs > self.score.away
      [] self.state = StateComplete -> TRUE

\* Mutant: the bottom of the ninth ends the game only when home leads.
should_end_ninth_home_only(self, pending_runs) ==
    CASE self.state = InningEnd("Top") -> self.score.home > self.score.away
      [] self.state = InningEnd("Bottom") -> self.score.home > self.score.away
      [] self.state = Inning("Top") -> FALSE
      [] self.state = Inning("Bottom") ->
            self.score.home + pending_runs > self.score.away
      [] self.state = StateComplete -> TRUE

\* Mutant: the top of the ninth ends the game on a tie too (>= for >).
should_end_ninth_on_tie(self, pending_runs) ==
    CASE self.state = InningEnd("Top") -> self.score.home >= self.score.away
      [] self.state = InningEnd("Bottom") -> self.score.home # self.score.away
      [] self.state = Inning("Top") -> FALSE
      [] self.state = Inning("Bottom") ->
            self.score.home + pending_runs > self.score.away
      [] self.state = StateComplete -> TRUE

\* The InningNumber::Ninth arm of should_end_game.
\* Mutant: the top of the ninth ends the game whenever the scores differ.
should_end_ninth_any_lead(self, pending_runs) ==
    CASE self.state = InningEnd("Top") -> self.score.home # self.score.away
      [] self.state = InningEnd("Bottom") -> self.score.home # self.score.away
      [] self.state = Inning("Top") -> FALSE
      [] self.state = Inning("Bottom") ->
            self.score.home + pending_runs > self.score.away
      [] self.state = StateComplete -> TRUE

should_end_ninth(self, pending_runs) ==
    CASE self.state = InningEnd("Top") -> self.score.home > self.score.away
      [] self.state = InningEnd("Bottom") -> self.score.home # self.score.away
      [] self.state = Inning("Top") -> FALSE
      [] self.state = Inning("Bottom") ->
            self.score.home + pending_runs > self.score.away
      [] self.state = StateComplete -> TRUE

\* Mutant: an extra inning's top half ends the game when the scores differ.
should_end_extra_after_top(self, pending_runs) ==
    CASE self.state = InningEnd("Top") -> self.score.home # self.score.away
      [] self.state = InningEnd("Bottom") -> self.score.home # self.score.away
      [] self.state.k = "Inning" -> FALSE
      [] self.state = StateComplete -> TRUE

\* Mutant: the bottom of an extra inning never ends the game.
should_end_extra_plays_on(self, pending_runs) ==
    CASE self.state = InningEnd("Top") -> FALSE
      [] self.state = InningEnd("Bottom") -> FALSE
      [] self.state.k = "Inning" -> FALSE
      [] self.state = StateComplete -> TRUE

\* The InningNumber::Extra(_) arm of should_end_game.
should_end_extra(self, pending_runs) ==
    CASE self.state = InningEnd("Top") -> FALSE
      [] self.state = InningEnd("Bottom") -> self.score.home # self.score.away
      [] self.state.k = "Inning" -> FALSE
      [] self.state = StateComplete -> TRUE

\* Whether the inning is one of First..Eighth, the first arm of should_end_game.
is_first_to_eighth(inning) == inning.k = "Regular" /\ inning.n < 9

\* Mutant: the ninth-inning rules are applied from the eighth inning on.
should_end_game_from_eighth(self, pending_runs) ==
    CASE self.current_inning.k = "Regular" /\ self.current_inning.n < 8 -> FALSE
      [] self.current_inning.k = "Regular" /\ self.current_inning.n >= 8 ->
            should_end_ninth(self, pending_runs)
      [] self.current_inning.k = "Extra" -> should_end_extra(self, pending_runs)

should_end_game(self, pending_runs) ==
    CASE is_first_to_eighth(self.current_inning) -> FALSE
      [] self.current_inning = Ninth -> should_end_ninth(self, pending_runs)
      [] self.current_inning.k = "Extra" -> should_end_extra(self, pending_runs)

\* Mutant: the inning number moves on after every half.
start_next_half_always_next(self) ==
    IF self.state.k # "InningEnd"
    THEN self
    ELSE LET half == IF self.state.half = "Top" THEN "Bottom" ELSE "Top"
             batting_order == IF self.state.half = "Top"
                              THEN self.home_batting_order
                              ELSE self.away_batting_order
         IN  [self EXCEPT !.current_inning = InningNumber_next(self.current_inning),
                          !.current_half_inning = HalfInning_new(half, batting_order),
                          !.state = Inning(half)]

\* Mutant: the new half leads off at the other team's starting slot.
start_next_half_other_order(self) ==
    IF self.state.k # "InningEnd"
    THEN self
    ELSE LET half == IF self.state.half = "Top" THEN "Bottom" ELSE "Top"
             batting_order == IF self.state.half = "Top"
                              THEN self.away_batting_order
                              ELSE self.home_batting_order
         IN  [self EXCEPT !.current_inning = IF half = "Top"
                                             THEN InningNumber_next(self.current_inning)
                                             ELSE self.current_inning,
                          !.current_half_inning = HalfInning_new(half, batting_order),
                          !.state = Inning(half)]

\* Mutant: the next half is set up but the state is left at InningEnd.
start_next_half_state_kept(self) ==
    IF self.state.k # "InningEnd"
    THEN self
    ELSE LET half == IF self.state.half = "Top" THEN "Bottom" ELSE "Top"
             batting_order == IF self.state.half = "Top"
                              THEN self.home_batting_order
                              ELSE self.away_batting_order
         IN  [self EXCEPT !.current_inning = IF half = "Top"
                                             THEN InningNumber_next(self.current_inning)
                                             ELSE self.current_inning,
                          !.current_half_inning = HalfInning_new(half, batting_order)]

start_next_half(self) ==
    IF self.state.k # "InningEnd"
    THEN self
    ELSE LET half == IF self.state.half = "Top" THEN "Bottom" ELSE "Top"
             batting_order == IF self.state.half = "Top"
                              THEN self.home_batting_order
                              ELSE self.away_batting_order
         IN  [self EXCEPT !.current_inning = IF half = "Top"
                                             THEN InningNumber_next(self.current_inning)
                                             ELSE self.current_inning,
                          !.current_half_inning = HalfInning_new(half, batting_order),
                          !.state = Inning(half)]

\* Mutant: the walk-off check looks at the wrong half.
is_bottom_of_ninth_wrong_half(self) ==
    self.current_inning = Ninth /\ self.state = Inning("Top")

is_bottom_of_ninth(self) == self.current_inning = Ninth /\ is_bottom(self.state)

\* let winner = self.score.winner().expect("Game should have winner");
\* return GameResult::Complete(GameSummary::new(self.score, self.current_inning, winner))
\* Mutant: the summary records the inning after the one the game ended in.
finish_game_next_inning(self) ==
    LET winner == GameScore_winner(self.score)
    IN  IF is_some(winner)
        THEN GameResult_complete(
                 GameSummary_new(self.score, InningNumber_next(self.current_inning),
                                 unwrap(winner)))
        ELSE Panicked("Game should have winner")

finish_game(self) ==
    LET winner == GameScore_winner(self.score)
    IN  IF is_some(winner)
        THEN GameResult_complete(
                 GameSummary_new(self.score, self.current_inning, unwrap(winner)))
        ELSE Panicked("Game should have winner")

Game_advance(self, outcome) ==
    LET hr == HalfInning_advance(self.current_half_inning, outcome)
    IN  IF hr.tag = "InProgress"
        THEN LET g == [self EXCEPT !.current_half_inning = hr.hi]
                 pending_runs == g.current_half_inning.runs_scored
             IN  IF is_bottom_of_ninth(g) /\ should_end_game(g, pending_runs)
                 THEN finish_game(complete_half_inning(g, pending_runs))
                 ELSE GameResult_in_progress(g)
        ELSE LET g == complete_half_inning(self, hr.summary.runs_scored)
             IN  IF should_end_game(g, 0)
                 THEN finish_game(g)
                 ELSE GameResult_in_progress(start_next_half(g))

GameResult_advance(self, outcome) ==
    IF self.tag = "InProgress"
    THEN Game_advance(self.game, outcome)
    ELSE self

(***************************************************************************)
(* The driver: a new game advanced one pitch at a time.                    *)
(***************************************************************************)
\* PlayOutcome values built with PlayOutcome::new, as a driver may build them:
\* a double play, a triple play, a run-scoring groundout, an out at home.
ArbitraryPlays ==
    {PlayOutcome_new(ForceOut, ForceOut, NoOutcome, "None"),
     PlayOutcome_new(ForceOut, ForceOut, TagOut, "None"),
     PlayOutcome_new(ForceOut, NoOutcome, NoOutcome, "One"),
     PlayOutcome_new(NoOutcome, NoOutcome, NoOutcome, "Out")}

\* The plays offered on a half-inning: the named constructors applied to its
\* baserunners and batter, the groundout, and the arbitrary ones.
Plays(hi) ==
    {groundout,
     single(hi.baserunners, hi.current_batter),
     double(hi.baserunners, hi.current_batter),
     triple(hi.baserunners, hi.current_batter),
     homerun(hi.baserunners, hi.current_batter)} \cup ArbitraryPlays

NoCall == [fn |-> "none"]
NoRet == [tag |-> "none"]

\* The live half's runs plus both cumulative scores, and the inning reached.
TotalRuns(r) ==
    IF r.tag = "InProgress"
    THEN r.game.score.away + r.game.score.home + r.game.current_half_inning.runs_scored
    ELSE IF r.tag = "Complete"
         THEN r.summary.final_score.away + r.summary.final_score.home
         ELSE 0

WithinBounds(r) ==
    /\ TotalRuns(r) <= MaxRuns
    /\ r.tag = "InProgress" => as_number(r.game.current_inning) <= MaxInning

Pitch(outcome) ==
    /\ result.tag = "InProgress"
    /\ WithinBounds(GameResult_advance(result, outcome))
    /\ result' = GameResult_advance(result, outcome)
    /\ UNCHANGED <<call, ret>>

PitchBall == Pitch(Ball)
PitchStrike == Pitch(Strike)
PitchFoul == Pitch(Foul)
PitchHomeRun == Pitch(HomeRun)
PitchHitByPitch == Pitch(HitByPitch)
PitchInPlay ==
    /\ result.tag = "InProgress"
    /\ \E o \in Plays(result.game.current_half_inning) : Pitch(InPlay(o))

\* A pitch fed to a completed game: GameResult::advance on Complete.
PitchAfterComplete ==
    /\ result.tag = "Complete"
    /\ \E outcome \in {Ball, Strike, Foul, HomeRun, HitByPitch, InPlay(groundout)} :
          result' = GameResult_advance(result, outcome)
    /\ UNCHANGED <<call, ret>>

Init ==
    /\ result = GameResult_in_progress(Game_new)
    /\ call = NoCall
    /\ ret = NoRet

Next ==
    \/ PitchBall
    \/ PitchStrike
    \/ PitchFoul
    \/ PitchHomeRun
    \/ PitchHitByPitch
    \/ PitchInPlay
    \/ PitchAfterComplete

Spec == Init /\ [][Next]_vars

\* The same game against a pitcher who throws no Ball and no Foul: every
\* plate appearance ends by strikes, a hit batter, a home run or a ball in
\* play, so the count only runs 0-0, 0-1, 0-2.
NextStrikes ==
    \/ PitchStrike
    \/ PitchHomeRun
    \/ PitchHitByPitch
    \/ PitchInPlay
    \/ PitchAfterComplete

SpecStrikes == Init /\ [][NextStrikes]_vars

(***************************************************************************)
(* Calls of the pure functions: an argument tuple is drawn, the function   *)
(* is applied once and its value kept in ret.                              *)
(***************************************************************************)
OptionBattingPosition == {None} \cup {Some(b) : b \in BattingPosition}

\* Every BaserunnerState the setters set_first/set_second/set_third can build.
BaserunnerStates ==
    [first : OptionBattingPosition,
     second : OptionBattingPosition,
     third : OptionBattingPosition]

WalkCalls ==
    {[fn |-> "walk", self |-> s, batter |-> b] :
        s \in BaserunnerStates, b \in BattingPosition}

\* The named hit constructors, applied to every BaserunnerState and batter.
HitKinds == {"single", "double", "triple", "homerun"}

HitCalls ==
    {[fn |-> "hit", kind |-> k, baserunners |-> s, batter |-> b] :
        k \in HitKinds, s \in BaserunnerStates, b \in BattingPosition}

hit(kind, baserunners, batter) ==
    CASE kind = "single" -> single(baserunners, batter)
      [] kind = "double" -> double(baserunners, batter)
      [] kind = "triple" -> triple(baserunners, batter)
      [] kind = "homerun" -> homerun(baserunners, batter)

\* PlayOutcome::scored on every combination of its four Option arguments.
ScoredCalls ==
    {[fn |-> "scored", first |-> f, second |-> s, third |-> t, batter |-> b] :
        f \in OptionBattingPosition, s \in OptionBattingPosition,
        t \in OptionBattingPosition, b \in OptionBattingPosition}

BaseOutcomes == {ForceOut, TagOut, NoOutcome} \cup {Runner(b) : b \in BattingPosition}

\* An arbitrary PlayOutcome, built by PlayOutcome::new or by the four with_*
\* setters applied to the groundout.
OutcomeCalls ==
    {[fn |-> "outcome", via |-> v, first |-> f, second |-> s, third |-> t, home |-> h] :
        v \in {"new", "with"}, f \in BaseOutcomes, s \in BaseOutcomes,
        t \in BaseOutcomes, h \in HomeOutcome}

\* The game after the pitches of a sequence are fed to GameResult::advance.
RECURSIVE Played(_, _)
Played(r, pitches) ==
    IF pitches = <<>>
    THEN r
    ELSE Played(GameResult_advance(r, Head(pitches)), Tail(pitches))

\* k half-innings of three groundouts each.
RECURSIVE QuietHalves(_)
QuietHalves(k) ==
    IF k = 0
    THEN <<>>
    ELSE <<InPlay(groundout), InPlay(groundout), InPlay(groundout)>> \o QuietHalves(k - 1)

\* A half brought to two outs with a run in, a runner on first, a strike on
\* the batter and the order four slots on.
BusyHalf == <<InPlay(groundout), InPlay(groundout), HomeRun, HitByPitch, Strike>>

\* Games with every pair of starting slots, played into a busy half of the
\* first two innings, and a pitch that records the third out.
NextHalfCalls ==
    {[fn |-> "next_half",
      game |-> Played(GameResult_in_progress(Game_with_batting_orders(a, h)),
                      QuietHalves(k) \o BusyHalf).game,
      pitch |-> InPlay(o)] :
        a \in BattingPosition, h \in BattingPosition, k \in 0..3,
        o \in {groundout, PlayOutcome_new(ForceOut, NoOutcome, NoOutcome, "One")}}

\* Every InningNumber, under either build: with overflow checks (the dev and
\* test profiles) or without (the release profile).
InningNumbers == {Regular(n) : n \in 1..9} \cup {Extra(n) : n \in 0..U8_MAX}

InningCalls ==
    {[fn |-> "inning_next", inning |-> i, overflow_checks |-> c] :
        i \in InningNumbers, c \in BOOLEAN}

\* InningNumber::next as either build runs it: n + 1 at Extra(255) panics
\* where overflow is checked and wraps where it is not.
InningNumber_next_built(self, overflow_checks) ==
    IF overflow_checks /\ self.k = "Extra" /\ u8_add_overflows(self.n, 1)
    THEN Panicked("attempt to add with overflow")
    ELSE [tag |-> "Returned", value |-> InningNumber_next(self)]

\* Base::next and Base::advance_by on every base and every distance up to
\* MaxBases.
BaseCalls ==
    {[fn |-> "advance_by", base |-> b, bases |-> n] : b \in Base, n \in 0..MaxBases}

Counts == {Count_new(b, s) : b \in 0..3, s \in 0..2}

PlateAppearanceResults ==
    {[tag |-> "InProgress", pa |-> PlateAppearance_with_count(c)] : c \in Counts}
        \cup {[tag |-> "Walk"], [tag |-> "Strikeout"],
              [tag |-> "HitByPitch"], [tag |-> "HomeRun"]}
        \cup {[tag |-> "InPlay", outcome |-> o] : o \in {groundout} \cup ArbitraryPlays}

HalfInningAdvances ==
    {HalfInningAdvance_complete(HalfInningSummary_new(r)) : r \in 0..MaxRuns}
        \cup {HalfInningAdvance_in_progress(HalfInning_new(h, 1)) : h \in {"Top", "Bottom"}}

GameResults ==
    {GameResult_complete(GameSummary_new([away |-> a, home |-> h], i, w)) :
        a \in 0..MaxRuns, h \in 0..MaxRuns, i \in {Ninth, Extra(10)},
        w \in {"Away", "Home"}}
        \cup {GameResult_in_progress(Game_new)}

AdvanceCalls ==
    {[fn |-> "advance", pa |-> x, hi |-> y, game |-> z, pitch |-> p] :
        x \in PlateAppearanceResults, y \in HalfInningAdvances, z \in GameResults,
        p \in {Ball, Strike, Foul, HomeRun, HitByPitch, InPlay(groundout)}}

CallWalk ==
    /\ call.fn = "walk"
    /\ ret = NoRet
    /\ ret' = [tag |-> "walk"] @@ walk(call.self, call.batter)
    /\ UNCHANGED <<result, call>>

\* A hit constructor, then the accessors outs(), baserunners() and
\* runs_scored() of the PlayOutcome it built.
CallHit ==
    /\ call.fn = "hit"
    /\ ret = NoRet
    /\ LET outcome == hit(call.kind, call.baserunners, call.batter)
       IN  ret' = [tag |-> "hit",
                   outcome |-> outcome,
                   outs |-> PlayOutcome_outs(outcome),
                   baserunners |-> PlayOutcome_baserunners(outcome),
                   runs |-> PlayOutcome_runs_scored(outcome)]
    /\ UNCHANGED <<result, call>>

CallScored ==
    /\ call.fn = "scored"
    /\ ret = NoRet
    /\ LET home == scored(call.first, call.second, call.third, call.batter)
       IN  ret' = [tag |-> "scored",
                   home |-> home,
                   runs |-> HomeOutcome_runs_scored(home)]
    /\ UNCHANGED <<result, call>>

CallOutcome ==
    /\ call.fn = "outcome"
    /\ ret = NoRet
    /\ LET outcome ==
               IF call.via = "new"
               THEN PlayOutcome_new(call.first, call.second, call.third, call.home)
               ELSE with_home(
                        with_third(
                            with_second(with_first(groundout, call.first), call.second),
                            call.third),
                        call.home)
       IN  ret' = [tag |-> "outcome",
                   outcome |-> outcome,
                   outs |-> PlayOutcome_outs(outcome),
                   baserunners |-> PlayOutcome_baserunners(outcome),
                   runs |-> PlayOutcome_runs_scored(outcome)]
    /\ UNCHANGED <<result, call>>

\* Game::advance on the pitch that ends a half-inning.
CallNextHalf ==
    /\ call.fn = "next_half"
    /\ ret = NoRet
    /\ ret' = [tag |-> "next_half", game |-> Game_advance(call.game, call.pitch)]
    /\ UNCHANGED <<result, call>>

\* The same pitch fed to the advance wrapper of each of the three layers.
CallAdvance ==
    /\ call.fn = "advance"
    /\ ret = NoRet
    /\ ret' = [tag |-> "advance",
               pa |-> PlateAppearanceResult_advance(call.pa, call.pitch),
               hi |-> HalfInningAdvance_advance(call.hi, call.pitch),
               game |-> GameResult_advance(call.game, call.pitch)]
    /\ UNCHANGED <<result, call>>

\* InningNumber::next, then as_number() of what it returned.
CallInningNext ==
    /\ call.fn = "inning_next"
    /\ ret = NoRet
    /\ LET next == InningNumber_next_built(call.inning, call.overflow_checks)
       IN  ret' = [tag |-> "inning_next",
                   next |-> next,
                   number |-> IF next.tag = "Returned"
                              THEN Some(as_number(next.value))
                              ELSE None]
    /\ UNCHANGED <<result, call>>

CallAdvanceBy ==
    /\ call.fn = "advance_by"
    /\ ret = NoRet
    /\ ret' = [tag |-> "advance_by",
               next |-> Base_next(call.base),
               base |-> advance_by(call.base, call.bases)]
    /\ UNCHANGED <<result, call>>

InitCalls ==
    /\ result = GameResult_in_progress(Game_new)
    /\ call \in WalkCalls \cup AdvanceCalls \cup HitCalls
                \cup ScoredCalls \cup OutcomeCalls \cup NextHalfCalls
                \cup InningCalls \cup BaseCalls
    /\ ret = NoRet

NextCalls ==
    \/ CallWalk
    \/ CallHit
    \/ CallScored
    \/ CallOutcome
    \/ CallNextHalf
    \/ CallAdvance
    \/ CallInningNext
    \/ CallAdvanceBy

SpecCalls == InitCalls /\ [][NextCalls]_vars

(***************************************************************************)
(* One plate appearance from an empty count, fed Ball, Strike and Foul      *)
(* pitches until it ends; call.pitches records the pitches thrown.          *)
(***************************************************************************)
Throw(pitch) ==
    /\ call.fn = "pa"
    /\ ret.advance.tag = "InProgress"
    /\ Len(call.pitches) < MaxPitches
    /\ ret' = [tag |-> "pa",
               advance |-> PlateAppearanceResult_advance(ret.advance, pitch)]
    /\ call' = [call EXCEPT !.pitches = Append(call.pitches, pitch)]
    /\ UNCHANGED result

ThrowBall == Throw(Ball)
ThrowStrike == Throw(Strike)
ThrowFoul == Throw(Foul)

InitPA ==
    /\ result = GameResult_in_progress(Game_new)
    /\ call = [fn |-> "pa", pitches |-> <<>>]
    /\ ret = [tag |-> "pa",
              advance |-> [tag |-> "InProgress", pa |-> PlateAppearance_new]]

NextPA ==
    \/ ThrowBall
    \/ ThrowStrike
    \/ ThrowFoul

SpecPA == InitPA /\ [][NextPA]_vars

(***************************************************************************)
(* One half-inning driven alone, pitch by pitch, from HalfInning::new;      *)
(* call.pitch is the pitch just fed to it.                                  *)
(***************************************************************************)
StartingBatters == {1, 8}

Deliver(pitch) ==
    /\ call.fn = "half"
    /\ ret.advance.tag = "InProgress"
    /\ LET after == HalfInningAdvance_advance(ret.advance, pitch)
       IN  /\ after.tag = "InProgress" => after.hi.runs_scored <= MaxHalfRuns
           /\ after.tag = "Complete" => after.summary.runs_scored <= MaxHalfRuns
           /\ ret' = [tag |-> "half", advance |-> after]
    /\ call' = [fn |-> "half", pitch |-> pitch]
    /\ UNCHANGED result

DeliverBall == Deliver(Ball)
DeliverStrike == Deliver(Strike)
DeliverFoul == Deliver(Foul)
DeliverHomeRun == Deliver(HomeRun)
DeliverHitByPitch == Deliver(HitByPitch)
DeliverInPlay ==
    /\ call.fn = "half"
    /\ ret.advance.tag = "InProgress"
    /\ \E o \in Plays(ret.advance.hi) : Deliver(InPlay(o))

InitHalf ==
    /\ result = GameResult_in_progress(Game_new)
    /\ call = [fn |-> "half", pitch |-> [k |-> "none"]]
    /\ \E b \in StartingBatters :
          ret = [tag |-> "half",
                 advance |-> HalfInningAdvance_in_progress(HalfInning_new("Top", b))]

NextHalf ==
    \/ DeliverBall
    \/ DeliverStrike
    \/ DeliverFoul
    \/ DeliverHomeRun
    \/ DeliverHitByPitch
    \/ DeliverInPlay

SpecHalf == InitHalf /\ [][NextHalf]_vars

(***************************************************************************)
(* game/plugins/baseball.rs: the Bevy plugin inside an App that supplies    *)
(* keyboard input, time and a frame loop.  result is GameData.game_result   *)
(* (tag "None" for Option::None); ret holds the rest of GameData, BallState *)
(* and InputState; call holds the Update systems still to run in the frame. *)
(* Lengths are exact rationals: position.y in quarters (y4), position.x in  *)
(* twentieths (x20), velocities in units, times in ticks of 0.05 s, the     *)
(* swing power in tenths and the swing timing in two-hundredths.            *)
(* GameData.swing_timing is written by handle_input and read nowhere; it    *)
(* is not kept.  The systems update_game_display, handle_fielding and       *)
(* animate_players write none of the three resources and are left out.      *)
(***************************************************************************)
NoResult == [tag |-> "None"]

\* time.delta_secs() of every frame, in ticks of 0.05 s: the App runs at a
\* steady twenty frames a second.
FrameTicks == 1

HitType == {"Grounder", "Fly", "LineDrive", "NoDoubt"}

\* #[derive(Default)] of the three resources.
GameData_default ==
    [current_pitch_outcome |-> None, is_pitching |-> FALSE, swing_power |-> 0]

BallState_default ==
    [position |-> [x20 |-> 0, y4 |-> 0],
     velocity |-> [x |-> 0, y |-> 0],
     is_in_play |-> FALSE,
     hit_type |-> None]

InputState_default == [swing_charging |-> FALSE, swing_charge_time |-> 0]

\* Vec3::new(0.0, -60.0, 10.0), the pitcher's mound.
Mound == [x20 |-> 0, y4 |-> -240]

\* (1.0 - (|position.y - (-150)| / 50.0)).max(0.0), in two-hundredths.
calculate_swing_timing(ball_state) ==
    LET distance_from_ideal == IF ball_state.position.y4 + 600 >= 0
                               THEN ball_state.position.y4 + 600
                               ELSE 0 - (ball_state.position.y4 + 600)
    IN  IF 200 - distance_from_ideal > 0 THEN 200 - distance_from_ideal ELSE 0

SwungStrike == [k |-> "PitchOutcome", po |-> Strike]
Hit(h) == [k |-> "Hit", hit |-> h]

\* combined_quality = swing_power * swing_timing, in two-thousandths.
determine_swing_outcome(swing_power, swing_timing) ==
    LET combined_quality == swing_power * swing_timing
    IN  IF combined_quality < 600
        THEN IF swing_timing < 100 THEN SwungStrike ELSE Hit("Grounder")
        ELSE IF combined_quality < 1200
             THEN IF 20 * swing_power > swing_timing
                  THEN Hit("Grounder")
                  ELSE Hit("Fly")
             ELSE IF combined_quality < 1600
                  THEN Hit("LineDrive")
                  ELSE IF combined_quality > 1800
                       THEN Hit("NoDoubt")
                       ELSE Hit("LineDrive")

\* The velocity handle_input gives a hit ball.
HitVelocity(h) ==
    CASE h = "Grounder" -> [x |-> 1, y |-> 60]
      [] h = "Fly" -> [x |-> 0, y |-> 240]
      [] h = "LineDrive" -> [x |-> 0, y |-> 500]
      [] h = "NoDoubt" -> [x |-> 0, y |-> 800]

Systems == {"handle_input", "update_ball_physics", "check_game_events"}

\* The systems that have not run yet in the current frame; when all have run
\* the next frame begins.
Left == IF call.left = {} THEN Systems ELSE call.left

\* One Update system runs, in any order the scheduler picks: the three all
\* take ResMut<GameData>, so no two of them run at once.
Runs(system) ==
    /\ call.fn = "frame"
    /\ system \in Left
    /\ call' = [fn |-> "frame", left |-> Left \ {system}, ran |-> system]

\* The keys of one frame: A just pressed, Space (up, pressed or just
\* released), Enter just pressed.
Keys == [a : BOOLEAN, space : {"up", "pressed", "just_released"}, enter : BOOLEAN]

\* handle_input with the keys of the frame.  ret.thrown counts the pitches
\* thrown, ret.swings the swings at the pitch in flight and ret.advances the
\* calls of Game::advance since it was thrown.
handle_input_with(keys) ==
    LET game_data == ret.game_data
        ball_state == ret.ball_state
        input_state == ret.input_state
    IN  IF result.tag # "InProgress"
        THEN UNCHANGED <<result, ret>>
        ELSE IF game_data.is_pitching
        THEN IF keys.a
             THEN /\ ret.thrown < MaxThrown
                  /\ ret' = [ret EXCEPT
                                !.ball_state.position = Mound,
                                !.ball_state.velocity = [x |-> 0, y |-> -300],
                                !.ball_state.is_in_play = TRUE,
                                !.game_data.is_pitching = FALSE,
                                !.thrown = ret.thrown + 1,
                                !.swings = 0,
                                !.advances = 0]
                  /\ UNCHANGED result
             ELSE UNCHANGED <<result, ret>>
        ELSE IF ball_state.is_in_play /\ ball_state.position.y4 > -640
        THEN LET pressed == keys.space = "pressed"
                 charge_time == IF pressed
                                THEN input_state.swing_charge_time + FrameTicks
                                ELSE input_state.swing_charge_time
                 power == IF pressed
                          THEN (IF charge_time < 30 THEN charge_time ELSE 30)
                          ELSE game_data.swing_power
                 charging == pressed \/ input_state.swing_charging
                 swings == keys.space = "just_released" \/ keys.enter
                 outcome == determine_swing_outcome(
                                power, calculate_swing_timing(ball_state))
             IN  /\ pressed => charge_time <= MaxCharge
                 /\ swings => ret.swings < MaxSwings
                 /\ UNCHANGED result
                 /\ IF swings
                    THEN ret' = [ret EXCEPT
                                    !.ball_state.hit_type =
                                        IF outcome.k = "Hit"
                                        THEN Some(outcome.hit)
                                        ELSE ball_state.hit_type,
                                    !.ball_state.velocity =
                                        IF outcome.k = "Hit"
                                        THEN HitVelocity(outcome.hit)
                                        ELSE ball_state.velocity,
                                    !.game_data.current_pitch_outcome =
                                        IF outcome.k = "PitchOutcome"
                                        THEN Some(outcome.po)
                                        ELSE game_data.current_pitch_outcome,
                                    !.swings = ret.swings + 1,
                                    !.input_state.swing_charging = FALSE,
                                    !.input_state.swing_charge_time = 0,
                                    !.game_data.swing_power = 0]
                    ELSE ret' = [ret EXCEPT
                                    !.input_state.swing_charging = charging,
                                    !.input_state.swing_charge_time = charge_time,
                                    !.game_data.swing_power = power]
        ELSE UNCHANGED <<result, ret>>

handle_input ==
    /\ Runs("handle_input")
    /\ \E keys \in Keys : handle_input_with(keys)

update_ball_physics ==
    /\ Runs("update_ball_physics")
    /\ UNCHANGED result
    /\ LET ball_state == ret.ball_state
           is_hit == is_some(ball_state.hit_type)
           position ==
               [x20 |-> ball_state.position.x20 + ball_state.velocity.x * FrameTicks,
                y4 |-> ball_state.position.y4
                           + (ball_state.velocity.y * FrameTicks) \div 5]
           velocity ==
               IF is_hit
               THEN [ball_state.velocity EXCEPT !.y = @ - 25 * FrameTicks]
               ELSE ball_state.velocity
           crossed == ~is_hit /\ position.y4 <= -600
           landed == /\ is_hit
                     /\ \/ position.y4 <= -600
                        \/ ball_state.hit_type = Some("Grounder") /\ position.y4 <= -400
           abs_x20 == IF position.x20 >= 0 THEN position.x20 ELSE 0 - position.x20
       IN  IF ~ball_state.is_in_play
           THEN UNCHANGED ret
           ELSE ret' = [ret EXCEPT
                           !.ball_state.position = position,
                           !.ball_state.velocity = velocity,
                           !.ball_state.is_in_play = ~(crossed \/ landed),
                           !.game_data.current_pitch_outcome =
                               IF crossed /\ @ = None
                               THEN Some(IF abs_x20 < 400 THEN Strike ELSE Ball)
                               ELSE @]

\* Mutant: the pending outcome is read but left in place.
check_game_events_outcome_kept ==
    /\ Runs("check_game_events")
    /\ IF ret.game_data.current_pitch_outcome = None
       THEN UNCHANGED <<result, ret>>
       ELSE IF result.tag = "InProgress"
            THEN /\ result' = Game_advance(result.game,
                                           unwrap(ret.game_data.current_pitch_outcome))
                 /\ ret' = [ret EXCEPT
                               !.game_data.is_pitching = TRUE,
                               !.ball_state.position = Mound,
                               !.ball_state.velocity = [x |-> 0, y |-> 0],
                               !.ball_state.is_in_play = FALSE,
                               !.ball_state.hit_type = None,
                               !.advances = ret.advances + 1]
            ELSE /\ result' = NoResult
                 /\ ret' = ret

\* Both Options are emptied by take(); the result is put back only when it
\* was InProgress.
check_game_events ==
    /\ Runs("check_game_events")
    /\ IF ret.game_data.current_pitch_outcome = None
       THEN UNCHANGED <<result, ret>>
       ELSE IF result.tag = "InProgress"
            THEN /\ result' = Game_advance(result.game,
                                           unwrap(ret.game_data.current_pitch_outcome))
                 /\ ret' = [ret EXCEPT
                               !.game_data.current_pitch_outcome = None,
                               !.game_data.is_pitching = TRUE,
                               !.ball_state.position = Mound,
                               !.ball_state.velocity = [x |-> 0, y |-> 0],
                               !.ball_state.is_in_play = FALSE,
                               !.ball_state.hit_type = None,
                               !.advances = ret.advances + 1]
            ELSE /\ result' = NoResult
                 /\ ret' = [ret EXCEPT !.game_data.current_pitch_outcome = None]

\* The resources after the Startup schedule: the defaults, then
\* setup_game_state.
setup_game_state(game_data) == [game_data EXCEPT !.is_pitching = TRUE]

InitPlugin ==
    /\ result = GameResult_in_progress(Game_new)
    /\ call = [fn |-> "frame", left |-> {}, ran |-> "setup_game_state"]
    /\ ret = [tag |-> "plugin",
              game_data |-> setup_game_state(GameData_default),
              ball_state |-> BallState_default,
              input_state |-> InputState_default,
              thrown |-> 0,
              swings |-> 0,
              advances |-> 0]

NextPlugin ==
    \/ handle_input
    \/ update_ball_physics
    \/ check_game_events

SpecPlugin == InitPlugin /\ [][NextPlugin]_vars

\* The frame loop keeps running: the App's runner calls update() again and
\* again, and each update runs every Update system once.
SpecPluginLive == SpecPlugin /\ WF_vars(NextPlugin)

(***************************************************************************)
(* Properties of the Game engine.                                          *)
(***************************************************************************)
\* The pitches the driver offers on an in-progress game.
Pitches(r) ==
    {Ball, Strike, Foul, HomeRun, HitByPitch}
        \cup {InPlay(o) : o \in Plays(r.game.current_half_inning)}

\* This step is Game::advance on the in-progress game with pitch p.
Took(p) == result' = Game_advance(result.game, p)

\* What the live half-inning makes of pitch p.
HalfAfter(p) == HalfInning_advance(result.game.current_half_inning, p)

InBottomOfNinth(g) == g.current_inning = Ninth /\ g.state = Inning("Bottom")
InTopOfNinth(g) == g.current_inning = Ninth /\ g.state = Inning("Top")
InBottomOfExtra(g) == g.current_inning.k = "Extra" /\ g.state = Inning("Bottom")
InTopOfExtra(g) == g.current_inning.k = "Extra" /\ g.state = Inning("Top")

\* The pitch leaves the half in progress with the home team ahead.
PutsHomeAhead(g, p) ==
    /\ HalfAfter(p).tag = "InProgress"
    /\ g.score.home + HalfAfter(p).hi.runs_scored > g.score.away

\* C1: in the bottom of the ninth, a pitch that leaves the half-inning in
\* progress with home score + the half's runs above the away score makes
\* Game::advance return Complete at that pitch, with winner Home and a final
\* home score of the previous home score plus the half's runs.
C1_WalkOffInNinth ==
    [][(result.tag = "InProgress" /\ InBottomOfNinth(result.game)) =>
        \A p \in Pitches(result) :
            (Took(p) /\ PutsHomeAhead(result.game, p))
            => /\ result'.tag = "Complete"
               /\ result'.summary.winner = "Home"
               /\ result'.summary.final_score.home =
                      result.game.score.home + HalfAfter(p).hi.runs_scored
               /\ result'.summary.final_score.away = result.game.score.away]_vars

\* A game in the bottom of the ninth with fewer than three outs needed, on
\* which a pitch puts the home team ahead and advance returns Complete.
C1_Witness ==
    /\ result.tag = "InProgress"
    /\ InBottomOfNinth(result.game)
    /\ \E p \in Pitches(result) :
          /\ PutsHomeAhead(result.game, p)
          /\ HalfAfter(p).hi.outs < 3
          /\ Game_advance(result.game, p).tag = "Complete"

\* C2: in the bottom of an extra inning, a pitch that leaves the half-inning
\* in progress with home score + the half's runs above the away score ends
\* the game at that pitch.
C2_WalkOffInExtra ==
    [][(result.tag = "InProgress" /\ InBottomOfExtra(result.game)) =>
        \A p \in Pitches(result) :
            (Took(p) /\ PutsHomeAhead(result.game, p))
            => result'.tag = "Complete"]_vars

\* C3: the pitch that records the third out of the top of the ninth ends the
\* game iff home is strictly ahead once the half's runs are added to the away
\* score; then the winner is Home, otherwise the bottom of the ninth starts.
C3_TopOfNinth ==
    [][(result.tag = "InProgress" /\ InTopOfNinth(result.game)) =>
        \A p \in Pitches(result) :
            (Took(p) /\ HalfAfter(p).tag = "Complete")
            => LET away == result.game.score.away + HalfAfter(p).summary.runs_scored
                   home == result.game.score.home
               IN  IF home > away
                   THEN /\ result'.tag = "Complete"
                        /\ result'.summary.winner = "Home"
                        /\ result'.summary.final_score = [away |-> away, home |-> home]
                   ELSE /\ result'.tag = "InProgress"
                        /\ InBottomOfNinth(result'.game)
                        /\ result'.game.current_half_inning.half = "Bottom"]_vars

\* The top of the ninth with home ahead, where a pitch records the third out
\* and advance returns Complete.
C3_Witness ==
    /\ result.tag = "InProgress"
    /\ InTopOfNinth(result.game)
    /\ result.game.score.home > result.game.score.away
    /\ \E p \in Pitches(result) :
          /\ HalfAfter(p).tag = "Complete"
          /\ Game_advance(result.game, p).tag = "Complete"

\* C4: the pitch that records the third out of the bottom of the ninth ends
\* the game iff the scores differ once the half's runs are added to the home
\* score; on a tie the game goes on in the top of Extra(10).
C4_BottomOfNinth ==
    [][(result.tag = "InProgress" /\ InBottomOfNinth(result.game)) =>
        \A p \in Pitches(result) :
            (Took(p) /\ HalfAfter(p).tag = "Complete")
            => LET away == result.game.score.away
                   home == result.game.score.home + HalfAfter(p).summary.runs_scored
               IN  IF home # away
                   THEN /\ result'.tag = "Complete"
                        /\ result'.summary.final_score = [away |-> away, home |-> home]
                   ELSE /\ result'.tag = "InProgress"
                        /\ result'.game.current_inning = Extra(10)
                        /\ result'.game.state = Inning("Top")
                        /\ result'.game.score = [away |-> away, home |-> home]]_vars

\* The top of Extra(10) just opened: the bottom of the ninth ended tied.
C4_Witness ==
    /\ result.tag = "InProgress"
    /\ result.game.current_inning = Extra(10)
    /\ result.game.state = Inning("Top")
    /\ result.game.current_half_inning = HalfInning_new("Top", result.game.away_batting_order)

\* C5: in an extra inning the third out of the top half never ends the game
\* (the bottom of the same inning starts); the third out of the bottom half
\* ends it iff the scores differ, and on a tie the next extra inning starts.
C5_ExtraInnings ==
    [][(result.tag = "InProgress" /\ result.game.current_inning.k = "Extra") =>
        \A p \in Pitches(result) :
            (Took(p) /\ HalfAfter(p).tag = "Complete")
            => LET g == result.game
                   runs == HalfAfter(p).summary.runs_scored
               IN  /\ InTopOfExtra(g) =>
                        /\ result'.tag = "InProgress"
                        /\ result'.game.current_inning = g.current_inning
                        /\ result'.game.state = Inning("Bottom")
                   /\ InBottomOfExtra(g) =>
                        IF g.score.home + runs # g.score.away
                        THEN result'.tag = "Complete"
                        ELSE /\ result'.tag = "InProgress"
                             /\ result'.game.current_inning = Extra(g.current_inning.n + 1)
                             /\ result'.game.state = Inning("Top")]_vars

\* The top of Extra(11) just opened: the tenth was played through both halves,
\* its top half did not end the game and its bottom half ended tied.
C5_Witness ==
    /\ result.tag = "InProgress"
    /\ result.game.current_inning = Extra(11)
    /\ result.game.state = Inning("Top")
    /\ result.game.current_half_inning = HalfInning_new("Top", result.game.away_batting_order)

\* C6: Game::advance never returns Complete while the current inning is one
\* of First..Eighth, whatever the score, and no completed game records an
\* inning before the ninth as the inning it ended in.
C6_NoEndBeforeNinth ==
    [][result.tag = "InProgress" =>
        /\ is_first_to_eighth(result.game.current_inning) => result'.tag = "InProgress"
        /\ result'.tag = "Complete" =>
              ~is_first_to_eighth(result'.summary.innings_played)]_vars

\* The top of the ninth reached with the home team ahead: eight innings were
\* played through with a lead on the board.
C6_Witness ==
    /\ result.tag = "InProgress"
    /\ InTopOfNinth(result.game)
    /\ result.game.score.home > result.game.score.away

\* C7: a completed game is never a tie: the expect() on score.winner() never
\* fails, the final scores differ, and the winner is the team with more runs.
C7_NoTie ==
    /\ result.tag # "Panicked"
    /\ result.tag = "Complete" =>
          LET s == result.summary.final_score
          IN  /\ s.away # s.home
              /\ result.summary.winner = "Away" <=> s.away > s.home
              /\ result.summary.winner = "Home" <=> s.home > s.away

\* A game completed in an extra inning with the away team the winner.
C7_Witness ==
    /\ result.tag = "Complete"
    /\ result.summary.winner = "Away"
    /\ result.summary.innings_played.k = "Extra"

(***************************************************************************)
(* Properties of the advance wrappers and of BaserunnerState::walk.        *)
(***************************************************************************)
\* C8: advance on a terminal PlateAppearanceResult (Walk, Strikeout, InPlay,
\* HitByPitch, HomeRun), on a Complete half-inning result and on a Complete
\* GameResult returns the same terminal value, for every pitch.
C8_TerminalAbsorbing ==
    (call.fn = "advance" /\ ret # NoRet) =>
        /\ call.pa.tag # "InProgress" => ret.pa = call.pa
        /\ call.hi.tag = "Complete" => ret.hi = call.hi
        /\ call.game.tag = "Complete" => ret.game = call.game

\* A home run fed to a ball already in play, a complete half-inning and a
\* complete game, with the three values returned.
C8_Witness ==
    /\ call.fn = "advance"
    /\ ret # NoRet
    /\ call.pitch = HomeRun
    /\ call.pa.tag = "InPlay"
    /\ call.hi.tag = "Complete"
    /\ call.game.tag = "Complete"

AllOccupied(s) == is_some(s.first) /\ is_some(s.second) /\ is_some(s.third)

\* C9: BaserunnerState::walk returns 1 run if first, second and third were
\* all occupied and 0 runs otherwise.
C9_WalkScoresOnlyWhenForced ==
    (call.fn = "walk" /\ ret # NoRet) =>
        ret.runs = IF AllOccupied(call.self) THEN 1 ELSE 0

\* C10: after BaserunnerState::walk the batter is on first, the runner from
\* first (if any) is on second, the runner from second is on third only if
\* first was occupied too, and a runner who is not forced keeps the base.
C10_WalkMovesOnlyForced ==
    (call.fn = "walk" /\ ret # NoRet) =>
        LET s == call.self
        IN  /\ ret.state.first = Some(call.batter)
            /\ ret.state.second = IF is_some(s.first) THEN s.first ELSE s.second
            /\ ret.state.third = IF is_some(s.first) /\ is_some(s.second)
                                 THEN s.second
                                 ELSE s.third

\* C11: BaserunnerState::walk on bases loaded returns 1 run and a loaded
\* state with the batter on first, the former first-runner on second and the
\* former second-runner on third; on empty bases it returns 0 runs and a
\* state whose only runner is the batter, on first.
C11_WalkLoadedAndEmpty ==
    (call.fn = "walk" /\ ret # NoRet) =>
        LET s == call.self
        IN  /\ AllOccupied(s) =>
                  /\ ret.runs = 1
                  /\ ret.state = [first |-> Some(call.batter),
                                  second |-> s.first,
                                  third |-> s.second]
                  /\ AllOccupied(ret.state)
            /\ s = BaserunnerState_empty =>
                  /\ ret.runs = 0
                  /\ ret.state = [first |-> Some(call.batter),
                                  second |-> None,
                                  third |-> None]

\* A walk returned for a batter coming up with three different runners on.
C11_Witness ==
    /\ call.fn = "walk"
    /\ ret # NoRet
    /\ call.self = [first |-> Some(3), second |-> Some(2), third |-> Some(1)]
    /\ call.batter = 4

Occupied(o) == IF is_some(o) THEN 1 ELSE 0

\* C12: single scores 1 run if third was occupied and 0 otherwise; double
\* scores one run for each of second and third that was occupied; triple
\* scores one run for each of first, second and third that was occupied.
C12_HitRuns ==
    (call.fn = "hit" /\ ret # NoRet) =>
        LET s == call.baserunners
        IN  /\ call.kind = "single" => ret.runs = Occupied(s.third)
            /\ call.kind = "double" => ret.runs = Occupied(s.second) + Occupied(s.third)
            /\ call.kind = "triple" =>
                  ret.runs = Occupied(s.first) + Occupied(s.second) + Occupied(s.third)

\* C13: single leaves the batter on first, the former first-runner on second
\* and the former second-runner on third; double leaves first empty, the
\* batter on second and the former first-runner on third; triple leaves first
\* and second empty and the batter on third; none of them records an out.
C13_HitOccupancy ==
    (call.fn = "hit" /\ ret # NoRet) =>
        LET s == call.baserunners
            b == Some(call.batter)
        IN  /\ call.kind = "single" =>
                  /\ ret.baserunners = [first |-> b, second |-> s.first, third |-> s.second]
                  /\ ret.outs = 0
            /\ call.kind = "double" =>
                  /\ ret.baserunners = [first |-> None, second |-> b, third |-> s.first]
                  /\ ret.outs = 0
            /\ call.kind = "triple" =>
                  /\ ret.baserunners = [first |-> None, second |-> None, third |-> b]
                  /\ ret.outs = 0

\* A double returned for a batter coming up with runners on first and second.
C13_Witness ==
    /\ call.fn = "hit"
    /\ ret # NoRet
    /\ call.kind = "double"
    /\ call.baserunners = [first |-> Some(2), second |-> Some(1), third |-> None]
    /\ call.batter = 3

\* C14: PlayOutcome::homerun on a bases-loaded state scores 4 runs, records
\* no out and leaves first, second and third empty, whoever the batter and
\* the three runners are.
C14_GrandSlam ==
    (call.fn = "hit" /\ ret # NoRet /\ call.kind = "homerun"
        /\ AllOccupied(call.baserunners)) =>
        /\ ret.runs = 4
        /\ ret.outs = 0
        /\ ret.baserunners = BaserunnerState_empty

\* A home run returned for the cleanup batter with the first three on base.
C14_Witness ==
    /\ call.fn = "hit"
    /\ ret # NoRet
    /\ call.kind = "homerun"
    /\ call.baserunners = [first |-> Some(3), second |-> Some(2), third |-> Some(1)]
    /\ call.batter = 4

(***************************************************************************)
(* Properties of the half-inning and of the plate appearance.              *)
(***************************************************************************)
\* C15: every in-progress half-inning has 0, 1 or 2 outs; a ball in play
\* whose outs() brings the total to three or more makes HalfInning::advance
\* return Complete at that pitch, and one that leaves the total below three
\* makes it return InProgress with the out counter increased by outs().
C15_ThreeOuts ==
    result.tag = "InProgress" =>
        LET hi == result.game.current_half_inning
        IN  /\ hi.outs \in 0..2
            /\ \A p \in Pitches(result) :
                  p.k = "InPlay" =>
                      LET n == PlayOutcome_outs(p.outcome)
                          after == HalfInning_advance(hi, p)
                      IN  IF hi.outs + n >= 3
                          THEN after.tag = "Complete"
                          ELSE /\ after.tag = "InProgress"
                               /\ after.hi.outs = hi.outs + n

\* A half-inning with one out on which a double play is offered and ends the
\* half, and a run-scoring groundout is offered and leaves it with two outs.
C15_Witness ==
    /\ result.tag = "InProgress"
    /\ result.game.current_half_inning.outs = 1
    /\ \E p \in Pitches(result) :
          /\ p.k = "InPlay"
          /\ PlayOutcome_outs(p.outcome) = 2
          /\ HalfAfter(p).tag = "Complete"
    /\ \E p \in Pitches(result) :
          /\ p.k = "InPlay"
          /\ PlayOutcome_outs(p.outcome) = 1
          /\ HalfAfter(p).tag = "InProgress"
          /\ HalfAfter(p).hi.outs = 2

\* How many of the first k pitches thrown are of the kinds in ks.
Thrown(ks, k) == Cardinality({i \in 1..k : call.pitches[i].k \in ks})

Min(a, b) == IF a < b THEN a ELSE b

\* C16: from 0-0, after any sequence of Ball, Strike and Foul pitches, the
\* plate appearance is a Walk exactly when the last pitch is the fourth Ball,
\* a Strikeout exactly when the last pitch is a Strike thrown with two
\* strikes, and otherwise in progress with balls = the Balls thrown and
\* strikes = the Strikes and Fouls thrown, held at two by the Fouls.
C16_CountProgression ==
    call.fn = "pa" =>
        LET n == Len(call.pitches)
            a == ret.advance
        IN  /\ a.tag \in {"InProgress", "Walk", "Strikeout"}
            /\ a.tag = "Walk" <=>
                  (n > 0 /\ call.pitches[n] = Ball /\ Thrown({"Ball"}, n) = 4)
            /\ a.tag = "Strikeout" <=>
                  (n > 0 /\ call.pitches[n] = Strike
                         /\ Thrown({"Strike", "Foul"}, n - 1) >= 2)
            /\ a.tag = "InProgress" =>
                  /\ a.pa.count.balls = Thrown({"Ball"}, n)
                  /\ a.pa.count.strikes = Min(2, Thrown({"Strike", "Foul"}, n))
            /\ call.pitches = <<Ball, Ball, Ball, Ball>> => a.tag = "Walk"
            /\ call.pitches = <<Strike, Strike, Strike>> => a.tag = "Strikeout"

\* A walk on a full count after two fouls: eight pitches, as in
\* demo_plate_appearance.
C16_Witness ==
    /\ call.fn = "pa"
    /\ call.pitches = <<Ball, Strike, Ball, Strike, Ball, Foul, Foul, Ball>>
    /\ ret.advance.tag = "Walk"

\* C17: a Foul thrown with two strikes leaves the plate appearance in
\* progress with the same count, whatever the balls; a Foul never ends a
\* plate appearance; a Foul with zero or one strike gives what a Strike gives.
C17_FoulAtTwoStrikes ==
    [][(call.fn = "pa" /\ ret.advance.tag = "InProgress"
            /\ call'.pitches = Append(call.pitches, Foul)) =>
        /\ ret'.advance.tag = "InProgress"
        /\ ret'.advance.pa.count.balls = ret.advance.pa.count.balls
        /\ ret.advance.pa.count.strikes = 2 => ret'.advance = ret.advance
        /\ ret.advance.pa.count.strikes < 2 =>
              /\ ret'.advance.pa.count.strikes = ret.advance.pa.count.strikes + 1
              /\ ret'.advance = PlateAppearance_advance(ret.advance.pa, Strike)]_vars

\* A full count that has just taken three fouls in a row and is still 3-2.
C17_Witness ==
    /\ call.fn = "pa"
    /\ call.pitches = <<Ball, Ball, Ball, Strike, Strike, Foul, Foul, Foul>>
    /\ ret.advance = [tag |-> "InProgress",
                      pa |-> PlateAppearance_with_count(Count_new(3, 2))]

(***************************************************************************)
(* Properties of the score and of the sequence of half-innings.            *)
(***************************************************************************)
\* The half's run total once pitch p is taken, whether or not p ends it.
RunsAfter(p) ==
    IF HalfAfter(p).tag = "InProgress"
    THEN HalfAfter(p).hi.runs_scored
    ELSE HalfAfter(p).summary.runs_scored

\* The cumulative score of g with runs credited to the team batting in g.
Folded(g, runs) ==
    IF g.state = Inning("Top")
    THEN [away |-> g.score.away + runs, home |-> g.score.home]
    ELSE [away |-> g.score.away, home |-> g.score.home + runs]

C19_ScoreChangesAtHalfEnd ==
    result.tag = "InProgress" =>
        \A p \in Pitches(result) :
            LET g == result.game
                r == Game_advance(g, p)
            IN  r.tag = "InProgress" =>
                    IF HalfAfter(p).tag = "InProgress"
                    THEN r.game.score = g.score
                    ELSE r.game.score = Folded(g, RunsAfter(p))

\* A top half in progress with a run in and the score still 0-0, on which a
\* pitch records the third out and the game goes on at 1-0.
C19_Witness ==
    /\ result.tag = "InProgress"
    /\ result.game.state = Inning("Top")
    /\ result.game.current_half_inning.runs_scored = 1
    /\ result.game.score = GameScore_new
    /\ \E p \in Pitches(result) :
          /\ HalfAfter(p).tag = "Complete"
          /\ Game_advance(result.game, p).tag = "InProgress"
          /\ Game_advance(result.game, p).game.score = [away |-> 1, home |-> 0]

\* C20: for every pitch on a game in progress that leaves the game going: if
\* it completes a top half, the next state is the Bottom of the same inning;
\* if it completes a bottom half, it is the Top of the next inning
\* (First..Ninth, Extra(10), Extra(11), ...); if it does not complete the
\* half, the inning number and the live half are unchanged.
C20_HalfInningSequence ==
    result.tag = "InProgress" =>
        \A p \in Pitches(result) :
            LET g == result.game
                r == Game_advance(g, p)
            IN  r.tag = "InProgress" =>
                    IF HalfAfter(p).tag = "InProgress"
                    THEN /\ r.game.current_inning = g.current_inning
                         /\ r.game.state = g.state
                         /\ r.game.current_half_inning.half = g.current_half_inning.half
                    ELSE IF g.state = Inning("Top")
                         THEN /\ r.game.current_inning = g.current_inning
                              /\ r.game.state = Inning("Bottom")
                              /\ r.game.current_half_inning.half = "Bottom"
                         ELSE /\ r.game.current_inning =
                                     IF as_number(g.current_inning) < 9
                                     THEN Regular(as_number(g.current_inning) + 1)
                                     ELSE Extra(as_number(g.current_inning) + 1)
                              /\ r.game.state = Inning("Top")
                              /\ r.game.current_half_inning.half = "Top"

\* The bottom of the tenth, tied, on which a pitch records the third out and
\* the top of the eleventh opens.
C20_Witness ==
    /\ result.tag = "InProgress"
    /\ result.game.current_inning = Extra(10)
    /\ result.game.state = Inning("Bottom")
    /\ \E p \in Pitches(result) :
          /\ HalfAfter(p).tag = "Complete"
          /\ Game_advance(result.game, p).tag = "InProgress"
          /\ Game_advance(result.game, p).game.current_inning = Extra(11)
          /\ Game_advance(result.game, p).game.state = Inning("Top")

(***************************************************************************)
(* Properties of the half-inning opened by the Game and of PlayOutcome.    *)
(***************************************************************************)
\* C21: the half-inning the Game opens after a completed half has zero outs,
\* empty bases, zero runs, a 0-0 count and, as its batter, the batting team's
\* starting slot (away_batting_order for a top half, home_batting_order for a
\* bottom half), wherever the order stood in the half that ended.
C21_FreshHalfInning ==
    (call.fn = "next_half" /\ ret # NoRet) =>
        /\ ret.game.tag = "InProgress"
        /\ LET g == call.game
               opened == IF g.state = Inning("Top") THEN "Bottom" ELSE "Top"
           IN  ret.game.game.current_half_inning =
                   [half |-> opened,
                    outs |-> 0,
                    current_batter |-> IF opened = "Top"
                                       THEN g.away_batting_order
                                       ELSE g.home_batting_order,
                    current_pa |-> [count |-> [balls |-> 0, strikes |-> 0]],
                    runs_scored |-> 0,
                    baserunners |-> [first |-> None, second |-> None, third |-> None]]

\* The away team, leading off at slot 3, makes its third out in the second
\* inning with its order at slot 7, a runner on and a run in; the home team,
\* leading off at slot 8, comes to bat.
C21_Witness ==
    /\ call.fn = "next_half"
    /\ ret # NoRet
    /\ call.game.away_batting_order = 3
    /\ call.game.home_batting_order = 8
    /\ call.game.current_inning = Regular(2)
    /\ call.game.state = Inning("Top")
    /\ call.game.current_half_inning.current_batter = 7
    /\ call.game.current_half_inning.outs = 2
    /\ call.game.current_half_inning.runs_scored = 1
    /\ is_some(call.game.current_half_inning.baserunners.first)
    /\ ret.game.game.current_half_inning.current_batter = 8

\* C29: the runs of PlayOutcome::scored equal the number of its four
\* arguments that are Some: 0 -> None, 1 -> One, 2 -> Two, 3 -> Three,
\* 4 -> Four.
C29_ScoredCountsSome ==
    (call.fn = "scored" /\ ret # NoRet) =>
        LET n == Occupied(call.first) + Occupied(call.second)
                     + Occupied(call.third) + Occupied(call.batter)
        IN  /\ ret.runs = n
            /\ ret.home = CASE n = 0 -> "None"
                            [] n = 1 -> "One"
                            [] n = 2 -> "Two"
                            [] n = 3 -> "Three"
                            [] n = 4 -> "Four"

\* Is the base outcome a ForceOut or TagOut marker?
IsOutMarker(o) == o = ForceOut \/ o = TagOut

\* C30: for a PlayOutcome built by PlayOutcome::new or the with_* setters,
\* outs() is the number of ForceOut/TagOut markers on the three bases plus 1
\* if home is Out; runs_scored() is the number the home outcome names, 0 for
\* None and Out; baserunners() keeps the Runner(id) entries at their bases
\* and has no runner where the entry is ForceOut, TagOut or None.
C30_ArbitraryOutcome ==
    (call.fn = "outcome" /\ ret # NoRet) =>
        /\ ret.outcome = [first |-> call.first, second |-> call.second,
                          third |-> call.third, home |-> call.home]
        /\ ret.outs = Cardinality({b \in {"first", "second", "third"} :
                                      IsOutMarker(call[b])})
                          + (IF call.home = "Out" THEN 1 ELSE 0)
        /\ ret.outs \in 0..4
        /\ ret.runs = CASE call.home = "One" -> 1
                        [] call.home = "Two" -> 2
                        [] call.home = "Three" -> 3
                        [] call.home = "Four" -> 4
                        [] call.home \in {"None", "Out"} -> 0
        /\ \A b \in {"first", "second", "third"} :
              ret.baserunners[b] =
                  IF \E id \in BattingPosition : call[b] = Runner(id)
                  THEN {CHOOSE id \in BattingPosition : call[b] = Runner(id)}
                  ELSE {}

\* An outcome set up with the with_* setters: a force at first, a tag at
\* second, a runner kept at third and an out at the plate, three outs in all.
C30_Witness ==
    /\ call.fn = "outcome"
    /\ ret # NoRet
    /\ call.via = "with"
    /\ call.first = ForceOut
    /\ call.second = TagOut
    /\ call.third = Runner(5)
    /\ call.home = "Out"
    /\ ret.outs = 3

(***************************************************************************)
(* Properties of HalfInning::advance, on a half-inning driven alone.       *)
(***************************************************************************)
\* The slot after b in the nine-slot order.
NextSlot(b) == IF b = 9 THEN 1 ELSE b + 1

FreshCount == [count |-> [balls |-> 0, strikes |-> 0]]

\* This step feeds pitch p to the in-progress half-inning.
Fed(p) ==
    /\ call.fn = "half"
    /\ ret.advance.tag = "InProgress"
    /\ call'.pitch = p

\* C22: a strikeout registers exactly one out and changes neither the
\* baserunners nor the half's runs; if the out is not the third, the batter
\* moves one slot and a 0-0 plate appearance begins; if it is, the half is
\* Complete with its run total.
C22_Strikeout ==
    [][(Fed(Strike) /\ ret.advance.hi.current_pa.count.strikes = 2) =>
        LET pre == ret.advance.hi
        IN  IF pre.outs = 2
            THEN ret'.advance = [tag |-> "Complete",
                                 summary |-> [runs_scored |-> pre.runs_scored]]
            ELSE /\ ret'.advance.tag = "InProgress"
                 /\ ret'.advance.hi =
                        [pre EXCEPT !.outs = pre.outs + 1,
                                    !.current_batter = NextSlot(pre.current_batter),
                                    !.current_pa = FreshCount]]_vars

\* A half with a runner on and a run in, one out, and two strikes on the
\* batter, from which strike three leaves runner and run alone.
C22_Witness ==
    /\ call.fn = "half"
    /\ ret.advance.tag = "InProgress"
    /\ ret.advance.hi.current_pa.count.strikes = 2
    /\ ret.advance.hi.outs = 1
    /\ ret.advance.hi.runs_scored = 1
    /\ is_some(ret.advance.hi.baserunners.second)
    /\ HalfInning_advance(ret.advance.hi, Strike).tag = "InProgress"
    /\ HalfInning_advance(ret.advance.hi, Strike).hi.outs = 2

\* C23: ball four and a hit batter have the same effect on every half-inning:
\* the baserunners become those walk(current batter) returns, its run (0 or
\* 1) is added to the half's runs, the outs are unchanged, the batter moves
\* one slot with a 0-0 count, and the half stays in progress.
C23_WalkAndHitByPitch ==
    [][(Fed(HitByPitch) \/ (Fed(Ball) /\ ret.advance.hi.current_pa.count.balls = 3)) =>
        LET pre == ret.advance.hi
            w == walk(pre.baserunners, pre.current_batter)
        IN  /\ w.runs \in {0, 1}
            /\ ret'.advance.tag = "InProgress"
            /\ ret'.advance.hi =
                   [pre EXCEPT !.baserunners = w.state,
                               !.runs_scored = pre.runs_scored + w.runs,
                               !.current_batter = NextSlot(pre.current_batter),
                               !.current_pa = FreshCount]
            /\ ret'.advance.hi.outs = pre.outs
            /\ HalfInning_advance([pre EXCEPT !.current_pa.count.balls = 3], Ball)
                   = HalfInning_advance(pre, HitByPitch)]_vars

\* A run walked in by ball four: the last pitch was a Ball, the count is back
\* at 0-0, a run is in and the bases are still loaded.
C23_Witness ==
    /\ call.fn = "half"
    /\ call.pitch = Ball
    /\ ret.advance.tag = "InProgress"
    /\ ret.advance.hi.current_pa = FreshCount
    /\ ret.advance.hi.runs_scored = 1
    /\ AllOccupied(ret.advance.hi.baserunners)

\* C24: a HomeRun pitch adds 1 plus the number of occupied bases to the
\* half's runs, empties the bases, records no out, moves the batter one slot
\* with a 0-0 count and keeps the half in progress, from any count.
C24_HomeRunPitch ==
    [][Fed(HomeRun) =>
        LET pre == ret.advance.hi
            on == pre.baserunners
        IN  /\ ret'.advance.tag = "InProgress"
            /\ ret'.advance.hi =
                   [pre EXCEPT !.runs_scored =
                                   pre.runs_scored + 1 + Occupied(on.first)
                                       + Occupied(on.second) + Occupied(on.third),
                               !.baserunners =
                                   [first |-> None, second |-> None, third |-> None],
                               !.current_batter = NextSlot(pre.current_batter),
                               !.current_pa = FreshCount]
            /\ ret'.advance.hi.outs = pre.outs]_vars

\* A grand slam: the last pitch was a HomeRun and the half's four runs all
\* came on it, the fifth batter of the half now up with the bases empty.
C24_Witness ==
    /\ call.fn = "half"
    /\ call.pitch = HomeRun
    /\ ret.advance.tag = "InProgress"
    /\ ret.advance.hi.runs_scored = 4
    /\ ret.advance.hi.outs = 0
    /\ ret.advance.hi.current_batter = 5
    /\ ret.advance.hi.baserunners = BaserunnerState_empty

\* C25: on InPlay(outcome) the half's runs grow by outcome.runs_scored(), its
\* baserunners become exactly outcome.baserunners() whoever was on before,
\* and outcome.outs() outs are registered: below three the half goes on with
\* the next batter, at three it is Complete with the run total.
C25_InPlay ==
    [][(call.fn = "half" /\ ret.advance.tag = "InProgress"
            /\ call'.pitch.k = "InPlay") =>
        LET pre == ret.advance.hi
            o == call'.pitch.outcome
            runs == pre.runs_scored + PlayOutcome_runs_scored(o)
        IN  IF pre.outs + PlayOutcome_outs(o) >= 3
            THEN ret'.advance = [tag |-> "Complete",
                                 summary |-> [runs_scored |-> runs]]
            ELSE /\ ret'.advance.tag = "InProgress"
                 /\ ret'.advance.hi =
                        [pre EXCEPT !.runs_scored = runs,
                                    !.baserunners = PlayOutcome_baserunners(o),
                                    !.outs = pre.outs + PlayOutcome_outs(o),
                                    !.current_batter = NextSlot(pre.current_batter),
                                    !.current_pa = FreshCount]
                 /\ o = groundout =>
                        ret'.advance.hi.baserunners = BaserunnerState_empty]_vars

\* Bases loaded with nobody out, on which the groundout is offered and leaves
\* the bases empty with one out.
C25_Witness ==
    /\ call.fn = "half"
    /\ ret.advance.tag = "InProgress"
    /\ AllOccupied(ret.advance.hi.baserunners)
    /\ ret.advance.hi.outs = 0
    /\ groundout \in Plays(ret.advance.hi)
    /\ HalfInning_advance(ret.advance.hi, InPlay(groundout)).tag = "InProgress"
    /\ HalfInning_advance(ret.advance.hi, InPlay(groundout)).hi.baserunners
           = BaserunnerState_empty

\* The pitch ends the plate appearance of the in-progress half-inning hi.
EndsPlateAppearance(hi, p) ==
    \/ p.k \in {"HomeRun", "HitByPitch", "InPlay"}
    \/ p = Ball /\ hi.current_pa.count.balls = 3
    \/ p = Strike /\ hi.current_pa.count.strikes = 2

\* C28: every plate appearance that ends without ending the half (strikeout,
\* walk, hit batter, home run, a ball in play with 0, 1 or 2 outs) moves the
\* current batter exactly one slot, Ninth going to First, and resets the
\* count to 0-0; a multi-out play moves the batter one slot too.
C28_BattingOrderRotation ==
    [][(call.fn = "half" /\ ret.advance.tag = "InProgress"
            /\ ret'.advance.tag = "InProgress"
            /\ EndsPlateAppearance(ret.advance.hi, call'.pitch)) =>
        /\ ret'.advance.hi.current_batter = NextSlot(ret.advance.hi.current_batter)
        /\ ret'.advance.hi.current_batter \in 1..9
        /\ ret'.advance.hi.current_pa = FreshCount]_vars

\* A double play turned with the ninth slot at bat: two outs, and the first
\* slot up with a 0-0 count.
C28_Witness ==
    /\ call.fn = "half"
    /\ call.pitch = InPlay(PlayOutcome_new(ForceOut, ForceOut, NoOutcome, "None"))
    /\ ret.advance.tag = "InProgress"
    /\ ret.advance.hi.outs = 2
    /\ ret.advance.hi.current_batter = 1
    /\ ret.advance.hi.current_pa = FreshCount

(***************************************************************************)
(* Properties of the Game on the last play of a half and on a count pitch. *)
(***************************************************************************)
\* C26: when a ball in play both scores and records the third out, the
\* HalfInningSummary's run total includes the play's runs, Game::advance
\* folds them into the batting team's score, and in the bottom of the ninth
\* or of an extra inning they decide the game when they put the home team
\* ahead.
C26_RunsOnThirdOut ==
    result.tag = "InProgress" =>
        \A p \in Pitches(result) :
            (/\ p.k = "InPlay"
             /\ PlayOutcome_runs_scored(p.outcome) > 0
             /\ HalfAfter(p).tag = "Complete") =>
                LET g == result.game
                    runs == g.current_half_inning.runs_scored
                                + PlayOutcome_runs_scored(p.outcome)
                    r == Game_advance(g, p)
                IN  /\ HalfAfter(p).summary.runs_scored = runs
                    /\ r.tag = "InProgress" => r.game.score = Folded(g, runs)
                    /\ r.tag = "Complete" => r.summary.final_score = Folded(g, runs)
                    /\ ((InBottomOfNinth(g) \/ InBottomOfExtra(g))
                            /\ g.score.home + runs > g.score.away) =>
                           /\ r.tag = "Complete"
                           /\ r.summary.winner = "Home"

\* The bottom of the tenth, scoreless with two outs, on which a groundout
\* that brings a run home is the third out and wins the game 1-0.
C26_Witness ==
    /\ result.tag = "InProgress"
    /\ InBottomOfExtra(result.game)
    /\ result.game.score = GameScore_new
    /\ result.game.current_half_inning.outs = 2
    /\ LET p == InPlay(PlayOutcome_new(ForceOut, NoOutcome, NoOutcome, "One"))
       IN  /\ p \in Pitches(result)
           /\ HalfAfter(p) = [tag |-> "Complete", summary |-> [runs_scored |-> 1]]
           /\ Game_advance(result.game, p).tag = "Complete"
           /\ Game_advance(result.game, p).summary.final_score = [away |-> 0, home |-> 1]

\* C27: a Ball, Strike or Foul that leaves the plate appearance going changes
\* only the stored count: outs, batter, baserunners and runs of the half, and
\* inning, live half and score of the game are unchanged and the result is
\* InProgress, unless the bottom-of-the-ninth walk-off check ends the game.
C27_CountPitchFrame ==
    result.tag = "InProgress" =>
        \A p \in {Ball, Strike, Foul} :
            LET g == result.game
                pa == PlateAppearance_advance(g.current_half_inning.current_pa, p)
                r == Game_advance(g, p)
            IN  pa.tag = "InProgress" =>
                    IF r.tag = "InProgress"
                    THEN /\ r.game = [g EXCEPT !.current_half_inning.current_pa = pa.pa]
                         /\ r.game.current_half_inning.outs = g.current_half_inning.outs
                         /\ r.game.current_half_inning.current_batter
                                = g.current_half_inning.current_batter
                         /\ r.game.score = g.score
                    ELSE InBottomOfNinth(g)

\* A 2-1 count in the bottom of the ninth with a runner on, one out and the
\* home team a run behind.
C27_Witness ==
    /\ result.tag = "InProgress"
    /\ InBottomOfNinth(result.game)
    /\ result.game.score = [away |-> 1, home |-> 0]
    /\ result.game.current_half_inning.current_pa.count = [balls |-> 2, strikes |-> 1]
    /\ result.game.current_half_inning.outs = 1
    /\ is_some(result.game.current_half_inning.baserunners.first)
    /\ Game_advance(result.game, Ball).tag = "InProgress"

(***************************************************************************)
(* Properties that relate two paths through the engine.                    *)
(***************************************************************************)
\* C31: the two home-run paths agree: on every in-progress half-inning,
\* PlayOutcome::homerun on its baserunners and batter scores as many runs as
\* BaserunnerState::home_run, and the half advanced with InPlay of that play
\* equals the half advanced with the HomeRun pitch (runs, bases, outs, next
\* batter).
C31_HomeRunPathsAgree ==
    (call.fn = "half" /\ ret.advance.tag = "InProgress") =>
        LET hi == ret.advance.hi
            play == homerun(hi.baserunners, hi.current_batter)
        IN  /\ PlayOutcome_runs_scored(play) = home_run(hi.baserunners)
            /\ HalfInning_advance(hi, InPlay(play)) = HalfInning_advance(hi, HomeRun)

\* C32: a Game carried by GameResult::InProgress has state Inning(Top) or
\* Inning(Bottom), never InningEnd(_) or Complete, and its current half-inning
\* is the half its state names; so complete_half_inning is entered in an
\* Inning state and start_next_half, called on its result, in an InningEnd
\* state: their "Should not happen" branches are not taken.
C32_InProgressStateIsInning ==
    result.tag = "InProgress" =>
        LET g == result.game
        IN  /\ g.state \in {Inning("Top"), Inning("Bottom")}
            /\ g.current_half_inning.half = g.state.half
            /\ complete_half_inning(g, g.current_half_inning.runs_scored).state
                   = InningEnd(g.state.half)

\* The bottom of the tenth under way: start_next_half has run nineteen times.
C32_Witness ==
    /\ result.tag = "InProgress"
    /\ result.game.current_inning = Extra(10)
    /\ result.game.state = Inning("Bottom")
    /\ result.game.current_half_inning.half = "Bottom"
    /\ result.game.current_half_inning.outs = 2

\* C33: in every in-progress half-inning reached with plays built by
\* groundout() or by single/double/triple/homerun on the half's own
\* baserunners and batter (plays that put no runner on base are offered as
\* well), no batting-order slot is on two bases at once and the batter now up
\* is not on base.
C33_RunnersDistinct ==
    (call.fn = "half" /\ ret.advance.tag = "InProgress") =>
        LET hi == ret.advance.hi
            on == hi.baserunners
        IN  /\ on.first \cap on.second = {}
            /\ on.first \cap on.third = {}
            /\ on.second \cap on.third = {}
            /\ hi.current_batter \notin (on.first \cup on.second \cup on.third)

\* The side has batted around: nine batters after the first, the slot that
\* led off is up again with the bases loaded, four runs in and two out.
C33_Witness ==
    /\ call.fn = "half"
    /\ ret.advance.tag = "InProgress"
    /\ ret.advance.hi.current_batter = 1
    /\ ret.advance.hi.runs_scored = 4
    /\ ret.advance.hi.outs = 2
    /\ AllOccupied(ret.advance.hi.baserunners)
    /\ ret.advance.hi.baserunners.first = Some(9)

\* C34: while an in-progress game is in the top half of an extra inning, from
\* its first pitch on, the cumulative scores of away and home are equal; and
\* in a bottom half of the ninth or a later inning, from its first pitch on,
\* the home side's cumulative score is not above the away side's.
C34_ExtraInningsStartTied ==
    result.tag = "InProgress" =>
        LET g == result.game
        IN  /\ InTopOfExtra(g) => g.score.away = g.score.home
            /\ (InBottomOfNinth(g) \/ InBottomOfExtra(g)) =>
                   g.score.home <= g.score.away

\* The top of the eleventh about to start: a fresh half-inning, scores level.
C34_Witness ==
    /\ result.tag = "InProgress"
    /\ result.game.current_inning = Extra(11)
    /\ result.game.state = Inning("Top")
    /\ result.game.current_half_inning
           = HalfInning_new("Top", result.game.away_batting_order)
    /\ result.game.score.away = result.game.score.home

\* C35: a game won by Away ended on a pitch that completed a bottom half, of
\* the ninth or of an extra inning (HalfInning::advance returns Complete, which
\* it does only at the third out); a game that ends on
\* the pitch completing a top half, or on a pitch that leaves the half short
\* of three outs, has winner Home.
C35_AwayWinsOnlyAfterBottom ==
    [][(result.tag = "InProgress" /\ result'.tag = "Complete") =>
          \A p \in Pitches(result) :
              Took(p) =>
                  LET g == result.game
                      ended == HalfAfter(p)
                  IN  /\ result'.summary.winner = "Away" =>
                             /\ InBottomOfNinth(g) \/ InBottomOfExtra(g)
                             /\ ended.tag = "Complete"
                      /\ (is_bottom(g.state) = FALSE \/ ended.tag = "InProgress") =>
                             result'.summary.winner = "Home"]_vars

\* A game Away won 1-0 in nine innings, decided by the third out of the
\* bottom of the ninth.
C35_Witness ==
    /\ result.tag = "Complete"
    /\ result.summary.winner = "Away"
    /\ result.summary.final_score = [away |-> 1, home |-> 0]
    /\ result.summary.innings_played = Ninth

(***************************************************************************)
(* Conservation of runners, and the small enumerations.                    *)
(***************************************************************************)
\* How many bases of the state s hold the batting-order slot b.
CountOn(s, b) ==
    (IF s.first = Some(b) THEN 1 ELSE 0)
        + (IF s.second = Some(b) THEN 1 ELSE 0)
        + (IF s.third = Some(b) THEN 1 ELSE 0)

\* BaserunnerState::runner_count.
runner_count(self) ==
    (IF is_some(self.first) THEN 1 ELSE 0)
        + (IF is_some(self.second) THEN 1 ELSE 0)
        + (IF is_some(self.third) THEN 1 ELSE 0)

\* C36: BaserunnerState::walk conserves runners: the occupied bases after the
\* walk plus the runs it returns equal the occupied bases before plus one (the
\* batter), and no slot is on more bases afterwards than it was before
\* (counting the batter once), so nobody is duplicated and whoever left the
\* bases is counted as a run.
C36_WalkConservesRunners ==
    ret.tag = "walk" =>
        /\ runner_count(ret.state) + ret.runs = runner_count(call.self) + 1
        /\ \A b \in BattingPosition :
               CountOn(ret.state, b)
                   <= CountOn(call.self, b) + (IF b = call.batter THEN 1 ELSE 0)

\* A walk with second and third occupied: slot 3 scores from third, slot 2
\* goes to third, the batter takes first.
C36_Witness ==
    /\ call = [fn |-> "walk",
               self |-> [first |-> None, second |-> Some(2), third |-> Some(3)],
               batter |-> 4]
    /\ ret.tag = "walk"
    /\ ret.state = [first |-> Some(4), second |-> None, third |-> Some(2)]
    /\ ret.runs = 1

\* C37: inning numbering never overflows or wraps: for every Extra(n) the u8
\* counter can hold, InningNumber::next returns Extra(n + 1), whose
\* as_number() is n + 1, in either build.
C37_InningNumberNoOverflow ==
    (ret.tag = "inning_next" /\ call.inning.k = "Extra") =>
        /\ ret.next = [tag |-> "Returned", value |-> Extra(call.inning.n + 1)]
        /\ ret.number = Some(call.inning.n + 1)

\* C38: Base::next maps First to Second, Second to Third, Third to Home and
\* Home to Home; advance_by(n) is n applications of next and is Home whenever
\* the n steps reach or pass it.
BaseIndex(b) ==
    CASE b = "First" -> 1
      [] b = "Second" -> 2
      [] b = "Third" -> 3
      [] b = "Home" -> 4

\* next applied n times, without the early exit of advance_by.
RECURSIVE NextTimes(_, _)
NextTimes(b, n) == IF n = 0 THEN b ELSE NextTimes(Base_next(b), n - 1)

C38_BaseAdvance ==
    ret.tag = "advance_by" =>
        /\ BaseIndex(ret.next) = Min(BaseIndex(call.base) + 1, 4)
        /\ ret.base = NextTimes(call.base, call.bases)
        /\ BaseIndex(ret.base) = Min(BaseIndex(call.base) + call.bases, 4)

\* Third.advance_by(5) = Home, the saturating case of the source's test.
C38_Witness ==
    /\ call = [fn |-> "advance_by", base |-> "Third", bases |-> 5]
    /\ ret.tag = "advance_by"
    /\ ret.base = "Home"
    /\ ret.next = "Home"

(***************************************************************************)
(* Properties of the Bevy plugin's frame loop.                             *)
(***************************************************************************)
\* A pitch has been thrown and not resolved yet.
PitchInFlight ==
    /\ ret.tag = "plugin"
    /\ result.tag = "InProgress"
    /\ ~ret.game_data.is_pitching

\* check_game_events has applied an outcome to the game and handed the ball
\* back to the pitcher.
PitchResolved ==
    /\ ret.tag = "plugin"
    /\ ret.game_data.is_pitching
    /\ ret.advances >= 1

\* C39: while the frame loop keeps running, every pitch thrown in an
\* in-progress game is eventually resolved: check_game_events applies a
\* PitchOutcome to the game and is_pitching is true again, whatever the
\* batter does.
C39_PitchEventuallyResolved == PitchInFlight ~> PitchResolved

\* C40: in every order of the three systems within a frame,
\* GameData.game_result is never None; whenever an outcome is pending for
\* check_game_events the result is InProgress, so the take() in it never
\* drops a Complete result and never advances one; and a thrown pitch
\* causes at most one call of Game::advance.
C40_AnySystemOrder ==
    ret.tag = "plugin" =>
        /\ result.tag \in {"InProgress", "Complete"}
        /\ is_some(ret.game_data.current_pitch_outcome) => result.tag = "InProgress"
        /\ ret.advances <= 1

\* The second pitch was swung at and missed by handle_input and then applied
\* by check_game_events before update_ball_physics ran in that frame.
C40_Witness ==
    /\ ret.tag = "plugin"
    /\ call.ran = "check_game_events"
    /\ "update_ball_physics" \in call.left
    /\ ret.thrown = 2
    /\ ret.advances = 1
    /\ ret.game_data.is_pitching
    /\ result.tag = "InProgress"
    /\ result.game.current_half_inning.current_pa.count.strikes = 2

====
